---- MODULE Spec2Model ----
(***************************************************************************)
(* Model of the scoring engine of the Car Efficiency extension             *)
(* (scoring.js, utils.js).  The scoring functions are pure; every call is  *)
(* modelled as one action that applies the function to the current input   *)
(* record and stores what it returned.                                     *)
(*                                                                         *)
(* JavaScript numbers are modelled as exact rationals <<n, d>> (d > 0,     *)
(* lowest terms); an absent field (null / undefined) is Null.  Strings     *)
(* are TLA+ strings, the absent string is NoStr.                           *)
(***************************************************************************)
EXTENDS Integers, Sequences, FiniteSets, TLC

----------------------------------------------------------------------------
(* Exact rational arithmetic standing for JavaScript number arithmetic.    *)

Null == << >>
NoStr == ""

Abs(i) == IF i < 0 THEN -i ELSE i

RECURSIVE GCD(_, _)
GCD(a, b) == IF b = 0 THEN a ELSE GCD(b, a % b)

\* n/d in lowest terms, for d > 0 and g the greatest common divisor of n and d
Reduce(n, d, g) == <<n \div g, d \div g>>

\* the rational n/d, d > 0
Q(n, d) == Reduce(n, d, GCD(Abs(n), d))

R(i) == <<i, 1>>

AddOver(a, b, g) == Q(a[1] * (b[2] \div g) + b[1] * (a[2] \div g), (a[2] \div g) * b[2])
Add(a, b) == AddOver(a, b, GCD(a[2], b[2]))

Neg(a) == <<-a[1], a[2]>>
Sub(a, b) == Add(a, Neg(b))

MulOver(a, b, g1, g2) ==
    <<(a[1] \div g1) * (b[1] \div g2), (a[2] \div g2) * (b[2] \div g1)>>
Mul(a, b) ==
    IF a[1] = 0 \/ b[1] = 0 THEN <<0, 1>>
    ELSE MulOver(a, b, GCD(Abs(a[1]), b[2]), GCD(Abs(b[1]), a[2]))

\* 1/b for b # 0
Inverse(b) == IF b[1] < 0 THEN <<-b[2], -b[1]>> ELSE <<b[2], b[1]>>
Div(a, b) == Mul(a, Inverse(b))

Lt(a, b) == Sub(a, b)[1] < 0
Le(a, b) == Sub(a, b)[1] <= 0
Gt(a, b) == Sub(b, a)[1] < 0
Ge(a, b) == Sub(b, a)[1] <= 0

\* Math.min, Math.max
MathMin(a, b) == IF Lt(b, a) THEN b ELSE a
MathMax(a, b) == IF Gt(b, a) THEN b ELSE a

\* Math.round: the nearest integer, a tie going up
MathRound(a) == (2 * a[1] + a[2]) \div (2 * a[2])

\* JavaScript truthiness of a number-or-absent value: null, undefined and 0 are falsy
Truthy(v) == v # Null /\ v[1] # 0

\* JavaScript truthiness of a string-or-absent value
TruthyStr(s) == s # NoStr

\* v || dflt
OrElse(v, dflt) == IF Truthy(v) THEN v ELSE dflt

----------------------------------------------------------------------------
(* utils.js                                                                *)

clamp(value, min, max) == MathMin(MathMax(value, min), max)

normalize(value, min, max) ==
    IF max = min THEN R(0) ELSE clamp(Div(Sub(value, min), Sub(max, min)), R(0), R(1))

----------------------------------------------------------------------------
(* JavaScript values as validateSpec meets them in a raw record: undefined, *)
(* null, NaN, numbers, booleans, strings of characters (the text of a       *)
(* numeric field) and words (the text of an enum or name field).            *)

Undefined == [t |-> "undefined"]
JsNull == [t |-> "null"]
JsNaN == [t |-> "NaN"]
Num(v) == [t |-> "number", v |-> v]
Bool(b) == [t |-> "boolean", b |-> b]
Str(chars) == [t |-> "string", chars |-> chars]
Word(w) == [t |-> "word", w |-> w]

\* truthiness of a JavaScript value
JsTruthy(x) ==
    CASE x.t \in {"undefined", "null", "NaN"} -> FALSE
      [] x.t = "number" -> x.v[1] # 0
      [] x.t = "boolean" -> x.b
      [] x.t = "string" -> x.chars # << >>
      [] x.t = "word" -> x.w # NoStr

DigitChars == <<"0", "1", "2", "3", "4", "5", "6", "7", "8", "9">>
IsDigit(c) == \E i \in 1..10 : DigitChars[i] = c
DigitValue(c) == (CHOOSE i \in 1..10 : DigitChars[i] = c) - 1

RECURSIVE Digits(_)
Digits(n) == IF n < 10 THEN <<DigitChars[n + 1]>>
             ELSE Append(Digits(n \div 10), DigitChars[(n % 10) + 1])

\* Number.prototype.toString for a number with at most one decimal
TenthsToString(tenths) ==
    (IF tenths < 0 THEN <<"-">> ELSE << >>)
        \o Digits(Abs(tenths) \div 10)
        \o (IF Abs(tenths) % 10 = 0 THEN << >> ELSE <<".", DigitChars[(Abs(tenths) % 10) + 1]>>)

\* text.toString()
toString(x) ==
    CASE x.t = "string" -> x.chars
      [] x.t = "number" -> TenthsToString((x.v[1] * 10) \div x.v[2])
      [] x.t = "boolean" -> IF x.b THEN <<"t", "r", "u", "e">> ELSE <<"f", "a", "l", "s", "e">>
      [] OTHER -> <<"N", "a", "N">>

\* .replace(/[^\d.-]/g, '').replace(/,/g, '')
IsNumericChar(c) == IsDigit(c) \/ c = "." \/ c = "-"
IsNotComma(c) == c # ","
cleaned(chars) == SelectSeq(SelectSeq(chars, IsNumericChar), IsNotComma)

\* the length of the longest run of digits at the start of chars
RECURSIVE DigitRun(_)
DigitRun(chars) ==
    IF chars = << >> \/ ~IsDigit(Head(chars)) THEN 0 ELSE 1 + DigitRun(Tail(chars))

RECURSIVE DigitsValue(_)
DigitsValue(chars) ==
    IF chars = << >> THEN 0
    ELSE 10 * DigitsValue(SubSeq(chars, 1, Len(chars) - 1)) + DigitValue(chars[Len(chars)])

RECURSIVE Pow10(_)
Pow10(k) == IF k = 0 THEN 1 ELSE 10 * Pow10(k - 1)

\* parseFloat of an unsigned text: digits, then optionally a point and digits;
\* NaN when there is no digit on either side
parseUnsigned(chars, intLen) ==
    LET rest == SubSeq(chars, intLen + 1, Len(chars))
        fracLen == IF rest # << >> /\ Head(rest) = "." THEN DigitRun(Tail(rest)) ELSE 0
    IN  IF intLen = 0 /\ fracLen = 0 THEN JsNaN
        ELSE Num(Add(R(DigitsValue(SubSeq(chars, 1, intLen))),
                     Q(DigitsValue(SubSeq(rest, 2, fracLen + 1)), Pow10(fracLen))))

\* parseFloat: the longest prefix that is a decimal literal
parseFloat(chars) ==
    IF chars # << >> /\ Head(chars) = "-"
    THEN IF parseUnsigned(Tail(chars), DigitRun(Tail(chars))) = JsNaN THEN JsNaN
         ELSE Num(Neg(parseUnsigned(Tail(chars), DigitRun(Tail(chars))).v))
    ELSE parseUnsigned(chars, DigitRun(chars))

\* utils.js: parseNumber
parseNumber(text) ==
    IF ~JsTruthy(text) THEN JsNull
    ELSE IF parseFloat(cleaned(toString(text))) = JsNaN THEN JsNull
    ELSE parseFloat(cleaned(toString(text)))

----------------------------------------------------------------------------
(* String.prototype.toLowerCase on the strings the model uses.             *)

UpperCased == [SUV |-> "suv", Hatchback |-> "hatchback", CVT |-> "cvt",
               Manual |-> "manual", Petrol |-> "petrol", DIESEL |-> "diesel"]

toLowerCase(s) == IF s \in DOMAIN UpperCased THEN UpperCased[s] ELSE s

\* A field that should hold a string but holds a truthy value of another type
\* (a number): calling toLowerCase on it raises a TypeError.
NonString == "#number"
IsString(s) == s # NonString

----------------------------------------------------------------------------
(* scoring.js: constants                                                   *)

REAL_WORLD_FACTORS == [ice |-> Q(8, 10), hybrid |-> Q(85, 100), cng |-> Q(8, 10), ev |-> Q(75, 100)]

bodyTypePenalties == [hatchback |-> R(2), sedan |-> R(5), crossover |-> R(10), mpv |-> R(15),
                      suv |-> R(20), coupe |-> R(7), convertible |-> R(12)]

transmissionPenalties == [manual |-> R(0), amt |-> R(2), cvt |-> R(-1), dct |-> R(3),
                          automatic |-> R(5), hybrid |-> R(-3)]

\* obj[key]: undefined when the object has no such key
Lookup(obj, key) == IF key \in DOMAIN obj THEN obj[key] ELSE Null

----------------------------------------------------------------------------
(* scoring.js: calculateEfficiencyPenalty, factor by factor                *)

\* a displacement factor without the ceiling of 25
displacementPenaltyUncapped(spec) ==
    LET displacement == spec.displacement IN
    IF Truthy(displacement)
    THEN IF Gt(displacement, R(1500))
         THEN Mul(Div(Sub(displacement, R(1500)), R(100)), Q(25, 10))
         ELSE IF Gt(displacement, R(1200))
         THEN Mul(Div(Sub(displacement, R(1200)), R(100)), Q(15, 10))
         ELSE IF Lt(displacement, R(1000))
         THEN Neg(MathMin(Mul(Div(Sub(R(1000), displacement), R(100)), R(2)), R(10)))
         ELSE R(0)
    ELSE R(0)

displacementPenalty(spec) ==
    LET displacement == spec.displacement IN
    IF Truthy(displacement)
    THEN IF Gt(displacement, R(1500))
         THEN MathMin(Mul(Div(Sub(displacement, R(1500)), R(100)), Q(25, 10)), R(25))
         ELSE IF Gt(displacement, R(1200))
         THEN Mul(Div(Sub(displacement, R(1200)), R(100)), Q(15, 10))
         ELSE IF Lt(displacement, R(1000))
         THEN Neg(MathMin(Mul(Div(Sub(R(1000), displacement), R(100)), R(2)), R(10)))
         ELSE R(0)
    ELSE R(0)

weightPenalty(spec) ==
    LET kerbWeight == spec.kerbWeight IN
    IF Truthy(kerbWeight)
    THEN IF Gt(kerbWeight, R(1200))
         THEN MathMin(Mul(Div(Sub(kerbWeight, R(1200)), R(100)), R(4)), R(30))
         ELSE IF Gt(kerbWeight, R(1000))
         THEN Mul(Div(Sub(kerbWeight, R(1000)), R(100)), R(2))
         ELSE IF Lt(kerbWeight, R(900))
         THEN Neg(MathMin(Mul(Div(Sub(R(900), kerbWeight), R(100)), R(3)), R(12)))
         ELSE R(0)
    ELSE R(0)

cylinderPenalty(spec) ==
    IF Truthy(spec.cylinders) /\ Gt(spec.cylinders, R(4))
    THEN Mul(Sub(spec.cylinders, R(4)), R(3))
    ELSE R(0)

bodyTypeKey(spec) == toLowerCase(IF TruthyStr(spec.bodyType) THEN spec.bodyType ELSE "sedan")

\* a lookup that falls back to the sedan entry for an unknown body type
bodyPenaltySedanDefault(spec) == OrElse(Lookup(bodyTypePenalties, bodyTypeKey(spec)), bodyTypePenalties.sedan)

bodyPenalty(spec) == OrElse(Lookup(bodyTypePenalties, bodyTypeKey(spec)), R(7))

transmissionKey(spec) ==
    toLowerCase(IF TruthyStr(spec.transmissionType) THEN spec.transmissionType ELSE "manual")

\* mutant: the default applied only to a missing key (??), so that manual contributes 0
transmissionPenaltyNullish(spec) ==
    IF Lookup(transmissionPenalties, transmissionKey(spec)) = Null THEN R(2)
    ELSE Lookup(transmissionPenalties, transmissionKey(spec))

transmissionPenalty(spec) == OrElse(Lookup(transmissionPenalties, transmissionKey(spec)), R(2))

powerToWeightPenalty(spec) ==
    IF Truthy(spec.power) /\ Truthy(spec.kerbWeight)
    THEN LET powerToWeight == Div(Mul(spec.power, Q(746, 1000)), Div(spec.kerbWeight, R(1000)))
         IN  IF Gt(powerToWeight, R(80))
             THEN MathMin(Mul(Div(Sub(powerToWeight, R(80)), R(10)), R(2)), R(12))
             ELSE R(0)
    ELSE R(0)

groundClearancePenalty(spec) ==
    IF Truthy(spec.groundClearance) /\ Gt(spec.groundClearance, R(180))
    THEN MathMin(Div(Sub(spec.groundClearance, R(180)), R(10)), R(8))
    ELSE R(0)

gearBonus(spec) ==
    IF Truthy(spec.gears) /\ Ge(spec.gears, R(6))
    THEN MathMin(Sub(spec.gears, R(5)), R(3))
    ELSE R(0)

\* totalPenalty just before the final Math.max(0, totalPenalty)
totalPenalty(spec) ==
    Sub(Add(Add(Add(Add(Add(Add(displacementPenalty(spec), weightPenalty(spec)),
                                cylinderPenalty(spec)),
                            bodyPenalty(spec)),
                        transmissionPenalty(spec)),
                    powerToWeightPenalty(spec)),
                groundClearancePenalty(spec)),
        gearBonus(spec))

\* mutant: bodyType.toLowerCase() without the "|| 'sedan'" default raises on an absent bodyType
penaltyThrowsOnAbsent(spec) ==
    ~IsString(spec.bodyType) \/ ~IsString(spec.transmissionType) \/ ~TruthyStr(spec.bodyType)

\* the calls (bodyType || 'sedan').toLowerCase() and
\* (transmissionType || 'manual').toLowerCase() raise a TypeError on a
\* truthy value that is no string
penaltyThrows(spec) == ~IsString(spec.bodyType) \/ ~IsString(spec.transmissionType)

\* mutant: the total returned without the final Math.max(0, ...)
calculateEfficiencyPenaltyUnclamped(spec) == totalPenalty(spec)

calculateEfficiencyPenalty(spec) == MathMax(R(0), totalPenalty(spec))

----------------------------------------------------------------------------
(* scoring.js: calculateRealWorldEfficiency                                *)

baseEfficiency == [petrol |-> R(16), diesel |-> R(20), hybrid |-> R(23), cng |-> R(25),
                   electric |-> R(6)]

\* a factor looked up in REAL_WORLD_FACTORS by fuel type, as the estimate does
mileageFactorLookedUp(fuelType) ==
    OrElse(Lookup(REAL_WORLD_FACTORS, fuelType), REAL_WORLD_FACTORS.ice)

\* the switch on fuelType of the measured-mileage branch
mileageFactor(fuelType) ==
    CASE fuelType \in {"petrol", "diesel"} -> REAL_WORLD_FACTORS.ice
      [] fuelType = "hybrid" -> REAL_WORLD_FACTORS.hybrid
      [] fuelType = "cng" -> REAL_WORLD_FACTORS.cng
      [] OTHER -> REAL_WORLD_FACTORS.ice

\* the branch taken: "mileage", "ev" or "estimate"
efficiencyBranch(spec) ==
    IF Truthy(spec.mileage) THEN "mileage"
    ELSE IF spec.fuelType = "electric" /\ Truthy(spec.range) /\ Truthy(spec.batteryCapacity)
    THEN "ev"
    ELSE "estimate"

estimatedRealWorldEfficiency(spec) ==
    LET efficiencyPenalty == calculateEfficiencyPenalty(spec)
        baseFuelEfficiency == OrElse(Lookup(baseEfficiency, spec.fuelType), baseEfficiency.petrol)
        penaltyFactor == MathMax(Q(4, 10), Sub(R(1), Mul(efficiencyPenalty, Q(15, 1000))))
        estimatedEfficiency == Mul(baseFuelEfficiency, penaltyFactor)
        correctionFactor == OrElse(Lookup(REAL_WORLD_FACTORS, spec.fuelType), REAL_WORLD_FACTORS.ice)
    IN  Mul(estimatedEfficiency, correctionFactor)

\* an electric branch that divides the rated range itself by the capacity
realWorldEfficiencyOnRatedRange(spec, branch) ==
    CASE branch = "mileage" -> Mul(spec.mileage, mileageFactor(spec.fuelType))
      [] branch = "ev" -> Div(spec.range, spec.batteryCapacity)
      [] OTHER -> estimatedRealWorldEfficiency(spec)

realWorldEfficiencyOn(spec, branch) ==
    CASE branch = "mileage" -> Mul(spec.mileage, mileageFactor(spec.fuelType))
      [] branch = "ev" -> Div(Mul(spec.range, REAL_WORLD_FACTORS.ev), spec.batteryCapacity)
      [] OTHER -> estimatedRealWorldEfficiency(spec)

calculateRealWorldEfficiency(spec) == realWorldEfficiencyOn(spec, efficiencyBranch(spec))

\* only the estimate branch calls calculateEfficiencyPenalty
realWorldEfficiencyThrows(spec) == efficiencyBranch(spec) = "estimate" /\ penaltyThrows(spec)

----------------------------------------------------------------------------
(* scoring.js: calculateCostPerKm                                          *)

\* a cost that falls back to the petrol price for any other fuel type
costPerKmOfPetrolDefault(fuelType, fuelPrices, realWorldEff) ==
    IF ~Truthy(realWorldEff) THEN Null
    ELSE CASE fuelType = "diesel" -> Div(fuelPrices.diesel, realWorldEff)
           [] fuelType = "cng" -> Div(fuelPrices.cng, realWorldEff)
           [] fuelType = "electric" -> Div(fuelPrices.electricity, realWorldEff)
           [] OTHER -> Div(fuelPrices.petrol, realWorldEff)

costPerKmOf(fuelType, fuelPrices, realWorldEff) ==
    IF ~Truthy(realWorldEff) THEN Null
    ELSE CASE fuelType = "petrol" -> Div(fuelPrices.petrol, realWorldEff)
           [] fuelType = "diesel" -> Div(fuelPrices.diesel, realWorldEff)
           [] fuelType = "cng" -> Div(fuelPrices.cng, realWorldEff)
           [] fuelType = "hybrid" -> Div(fuelPrices.petrol, realWorldEff)
           [] fuelType = "electric" -> Div(fuelPrices.electricity, realWorldEff)
           [] OTHER -> Null

calculateCostPerKm(spec, fuelPrices) ==
    costPerKmOf(spec.fuelType, fuelPrices, calculateRealWorldEfficiency(spec))

----------------------------------------------------------------------------
(* scoring.js: calculateEfficiencyScore                                    *)

\* <<excellent, good, average, poor>>; the electric ones are 8.0, 6.5, 5.0, 3.5
thresholds(fuelType) ==
    CASE fuelType = "petrol" -> <<R(20), R(17), R(14), R(11)>>
      [] fuelType = "diesel" -> <<R(25), R(22), R(19), R(16)>>
      [] fuelType = "hybrid" -> <<R(28), R(24), R(20), R(17)>>
      [] fuelType = "cng" -> <<R(30), R(26), R(22), R(18)>>
      [] fuelType = "electric" -> <<R(8), Q(65, 10), R(5), Q(35, 10)>>
      [] OTHER -> <<R(20), R(17), R(14), R(11)>>

\* the branch of calculateEfficiencyScore taken when realWorldEff is falsy
fallbackScore(spec) ==
    LET efficiencyPenalty == calculateEfficiencyPenalty(spec)
        baseScore == Q(60, 100)
        penaltyReduction == MathMin(Mul(efficiencyPenalty, Q(2, 100)), Q(45, 100))
    IN  MathMax(Q(15, 100), Sub(baseScore, penaltyReduction))

\* a piecewise score whose lowest band climbs to 0.25, above the 0.20 at which
\* the next band starts
piecewiseOnSteppedDown(realWorldEff, excellentThreshold, goodThreshold, averageThreshold, poorThreshold) ==
    IF Ge(realWorldEff, excellentThreshold)
    THEN Add(Q(75, 100),
             Mul(MathMin(Div(Sub(realWorldEff, excellentThreshold),
                             Mul(excellentThreshold, Q(3, 10))), R(1)), Q(15, 100)))
    ELSE IF Ge(realWorldEff, goodThreshold)
    THEN Add(Q(55, 100), Mul(Div(Sub(realWorldEff, goodThreshold),
                                 Sub(excellentThreshold, goodThreshold)), Q(20, 100)))
    ELSE IF Ge(realWorldEff, averageThreshold)
    THEN Add(Q(35, 100), Mul(Div(Sub(realWorldEff, averageThreshold),
                                 Sub(goodThreshold, averageThreshold)), Q(20, 100)))
    ELSE IF Ge(realWorldEff, poorThreshold)
    THEN Add(Q(20, 100), Mul(Div(Sub(realWorldEff, poorThreshold),
                                 Sub(averageThreshold, poorThreshold)), Q(15, 100)))
    ELSE MathMax(Q(5, 100), Mul(Q(25, 100), Div(realWorldEff, poorThreshold)))

\* the piecewise score on the thresholds, before the penalty adjustment
piecewiseOn(realWorldEff, excellentThreshold, goodThreshold, averageThreshold, poorThreshold) ==
    IF Ge(realWorldEff, excellentThreshold)
    THEN Add(Q(75, 100),
             Mul(MathMin(Div(Sub(realWorldEff, excellentThreshold),
                             Mul(excellentThreshold, Q(3, 10))), R(1)), Q(15, 100)))
    ELSE IF Ge(realWorldEff, goodThreshold)
    THEN Add(Q(55, 100), Mul(Div(Sub(realWorldEff, goodThreshold),
                                 Sub(excellentThreshold, goodThreshold)), Q(20, 100)))
    ELSE IF Ge(realWorldEff, averageThreshold)
    THEN Add(Q(35, 100), Mul(Div(Sub(realWorldEff, averageThreshold),
                                 Sub(goodThreshold, averageThreshold)), Q(20, 100)))
    ELSE IF Ge(realWorldEff, poorThreshold)
    THEN Add(Q(20, 100), Mul(Div(Sub(realWorldEff, poorThreshold),
                                 Sub(averageThreshold, poorThreshold)), Q(15, 100)))
    ELSE MathMax(Q(5, 100), Mul(Q(20, 100), Div(realWorldEff, poorThreshold)))

piecewiseWith(realWorldEff, t) == piecewiseOn(realWorldEff, t[1], t[2], t[3], t[4])

piecewiseScore(realWorldEff, fuelType) == piecewiseWith(realWorldEff, thresholds(fuelType))

\* mutant: the adjusted score without the floor of 0.05
thresholdScoreUnfloored(spec, realWorldEff) ==
    MathMin(R(1), Sub(piecewiseScore(realWorldEff, spec.fuelType),
                      MathMin(Mul(calculateEfficiencyPenalty(spec), Q(12, 1000)), Q(25, 100))))

\* the piecewise score with the penalty adjustment and the final clamp
thresholdScore(spec, realWorldEff) ==
    LET score == piecewiseScore(realWorldEff, spec.fuelType)
        penalty == calculateEfficiencyPenalty(spec)
        penaltyAdjustment == MathMin(Mul(penalty, Q(12, 1000)), Q(25, 100))
    IN  MathMin(R(1), MathMax(Q(5, 100), Sub(score, penaltyAdjustment)))

\* mutant: the fallback taken whenever no mileage was measured
efficiencyScoreOfMileage(spec, realWorldEff) ==
    IF ~Truthy(spec.mileage) THEN fallbackScore(spec) ELSE thresholdScore(spec, realWorldEff)

efficiencyScoreOf(spec, realWorldEff) ==
    IF ~Truthy(realWorldEff) THEN fallbackScore(spec) ELSE thresholdScore(spec, realWorldEff)

calculateEfficiencyScore(spec) == efficiencyScoreOf(spec, calculateRealWorldEfficiency(spec))

\* both branches call calculateEfficiencyPenalty
efficiencyScoreThrows(spec) == penaltyThrows(spec)

----------------------------------------------------------------------------
(* scoring.js: calculateSafetyScore                                        *)

\* mutant: the feature score without the cap of 0.6
featureSafetyScoreUncapped(spec) ==
    Add(Add(IF Truthy(spec.airbags) /\ Ge(spec.airbags, R(6)) THEN Q(4, 10)
            ELSE IF Truthy(spec.airbags) /\ Ge(spec.airbags, R(2)) THEN Q(2, 10)
            ELSE R(0),
            IF spec.esc = TRUE THEN Q(2, 10) ELSE R(0)),
        IF spec.isofix = TRUE THEN Q(2, 10) ELSE R(0))

featureSafetyScore(spec) ==
    LET airbagScore == IF Truthy(spec.airbags) /\ Ge(spec.airbags, R(6)) THEN Q(4, 10)
                       ELSE IF Truthy(spec.airbags) /\ Ge(spec.airbags, R(2)) THEN Q(2, 10)
                       ELSE R(0)
        escScore == IF spec.esc = TRUE THEN Q(2, 10) ELSE R(0)
        isofixScore == IF spec.isofix = TRUE THEN Q(2, 10) ELSE R(0)
    IN  MathMin(Add(Add(airbagScore, escScore), isofixScore), Q(6, 10))

\* mutant: the star rating used whenever it is present, a rating of 0 included
calculateSafetyScoreAnyStars(spec) ==
    IF spec.ncapStars # Null
    THEN MathMin(Div(spec.ncapStars, R(5)), R(1))
    ELSE featureSafetyScore(spec)

calculateSafetyScore(spec) ==
    IF Truthy(spec.ncapStars) /\ Gt(spec.ncapStars, R(0))
    THEN MathMin(Div(spec.ncapStars, R(5)), R(1))
    ELSE featureSafetyScore(spec)

----------------------------------------------------------------------------
(* scoring.js: calculateValueScore, calculatePerformancePerEfficiencyScore *)

NORMALIZATION_RANGES ==
    [price_lakh |-> [min |-> R(6), max |-> R(50)],
     power_to_weight |-> [min |-> R(50), max |-> R(120)]]

\* a value score that weighs the price advantage 60% and the features 40%
calculateValueScorePriceFirst(spec, efficiencyScore, safetyScore) ==
    IF ~Truthy(spec.price) THEN R(0)
    ELSE LET priceScore == Sub(R(1), normalize(spec.price, NORMALIZATION_RANGES.price_lakh.min,
                                               NORMALIZATION_RANGES.price_lakh.max))
             featuresScore == Div(Add(efficiencyScore, safetyScore), R(2))
         IN  Add(Mul(featuresScore, Q(4, 10)), Mul(priceScore, Q(6, 10)))

calculateValueScore(spec, efficiencyScore, safetyScore) ==
    IF ~Truthy(spec.price) THEN R(0)
    ELSE LET priceScore == Sub(R(1), normalize(spec.price, NORMALIZATION_RANGES.price_lakh.min,
                                               NORMALIZATION_RANGES.price_lakh.max))
             featuresScore == Div(Add(efficiencyScore, safetyScore), R(2))
         IN  Add(Mul(featuresScore, Q(6, 10)), Mul(priceScore, Q(4, 10)))

\* a score that counts a missing power-to-weight ratio as a power score of 0
calculatePerformancePerEfficiencyScoreNoFallback(spec, efficiencyScore) ==
    IF ~Truthy(spec.power) \/ ~Truthy(spec.kerbWeight) THEN Mul(efficiencyScore, Q(3, 10))
    ELSE LET powerToWeight == Div(spec.power, Div(spec.kerbWeight, R(1000)))
             powerScore == normalize(powerToWeight, NORMALIZATION_RANGES.power_to_weight.min,
                                     NORMALIZATION_RANGES.power_to_weight.max)
         IN  Add(Mul(powerScore, Q(7, 10)), Mul(efficiencyScore, Q(3, 10)))

calculatePerformancePerEfficiencyScore(spec, efficiencyScore) ==
    IF ~Truthy(spec.power) \/ ~Truthy(spec.kerbWeight) THEN efficiencyScore
    ELSE LET powerToWeight == Div(spec.power, Div(spec.kerbWeight, R(1000)))
             powerScore == normalize(powerToWeight, NORMALIZATION_RANGES.power_to_weight.min,
                                     NORMALIZATION_RANGES.power_to_weight.max)
         IN  Add(Mul(powerScore, Q(7, 10)), Mul(efficiencyScore, Q(3, 10)))

----------------------------------------------------------------------------
(* scoring.js: calculateCompositeScore                                     *)

\* Math.round(x * 100)
Percent(x) == MathRound(Mul(x, R(100)))

scoreResult(composite, efficiencyScore, safetyScore, valueScore, perfEffScore, costPerKm, powerToWeight, realWorldEfficiency) ==
    [composite |-> Percent(composite),
     breakdown |-> [efficiency |-> Percent(efficiencyScore),
                    safety |-> Percent(safetyScore),
                    valueForMoney |-> Percent(valueScore),
                    performancePerEfficiency |-> Percent(perfEffScore)],
     metrics |-> [costPerKm |-> IF Truthy(costPerKm)
                                THEN Div(R(Percent(costPerKm)), R(100))
                                ELSE Null,
                  powerToWeight |-> IF Truthy(powerToWeight)
                                    THEN Div(R(MathRound(Mul(powerToWeight, R(10)))), R(10))
                                    ELSE Null,
                  realWorldEfficiency |-> realWorldEfficiency]]

\* the weighted composite, a fraction of 1
\* mutant: the composite weighted from the rounded percentages of the sub-scores
weightedCompositeOfRounded(weights, efficiencyScore, safetyScore, valueScore, perfEffScore) ==
    Div(Add(Add(Add(Mul(Q(Percent(efficiencyScore), 100), weights.efficiency),
                    Mul(Q(Percent(safetyScore), 100), weights.safety)),
                Mul(Q(Percent(valueScore), 100), weights.valueForMoney)),
            Mul(Q(Percent(perfEffScore), 100), weights.performancePerEfficiency)),
        R(100))

weightedComposite(weights, efficiencyScore, safetyScore, valueScore, perfEffScore) ==
    Div(Add(Add(Add(Mul(efficiencyScore, weights.efficiency),
                    Mul(safetyScore, weights.safety)),
                Mul(valueScore, weights.valueForMoney)),
            Mul(perfEffScore, weights.performancePerEfficiency)),
        R(100))

compositeOfScores(spec, weights, fuelPrices, efficiencyScore, safetyScore, valueScore, perfEffScore) ==
    scoreResult(weightedComposite(weights, efficiencyScore, safetyScore, valueScore,
                                  perfEffScore),
                efficiencyScore, safetyScore, valueScore, perfEffScore,
                calculateCostPerKm(spec, fuelPrices),
                IF Truthy(spec.power) /\ Truthy(spec.kerbWeight)
                THEN Div(spec.power, Div(spec.kerbWeight, R(1000)))
                ELSE Null,
                calculateRealWorldEfficiency(spec))

compositeOf(spec, weights, fuelPrices, efficiencyScore, safetyScore) ==
    compositeOfScores(spec, weights, fuelPrices, efficiencyScore, safetyScore,
                      calculateValueScore(spec, efficiencyScore, safetyScore),
                      calculatePerformancePerEfficiencyScore(spec, efficiencyScore))

calculateCompositeScore(spec, weights, fuelPrices) ==
    compositeOf(spec, weights, fuelPrices, calculateEfficiencyScore(spec),
                calculateSafetyScore(spec))

compositeThrows(spec) == efficiencyScoreThrows(spec)

\* a scorer that keeps the efficiency it computed in the record it was given
specAfterCompositeScoreCaching(spec) ==
    IF compositeThrows(spec) THEN spec
    ELSE [spec EXCEPT !.mileage = calculateRealWorldEfficiency(spec)]

\* The spec argument after the call: calculateCompositeScore and the
\* functions it calls only read the fields of spec, weights and fuelPrices.
specAfterCompositeScore(spec) == spec

----------------------------------------------------------------------------
(* utils.js: getDefaultSettings                                            *)

getDefaultSettings ==
    [weights |-> [efficiency |-> R(35), safety |-> R(30), valueForMoney |-> R(25),
                  performancePerEfficiency |-> R(10)],
     fuelPrices |-> [petrol |-> R(110), diesel |-> R(95), cng |-> R(80), electricity |-> R(9)]]

----------------------------------------------------------------------------
(* utils.js: loadSettings (and popup.js: loadSettings, which is the same   *)
(* merge).  What chrome.storage.sync holds under carEfficiencySettings is  *)
(* Null when nothing is stored, or an object with some or all of the keys  *)
(* weights and fuelPrices, each an object with some or all of its keys.    *)

\* { ...a, ...b }; spreading null or undefined adds nothing
Spread(a, b) == [k \in DOMAIN a \cup DOMAIN b |-> IF k \in DOMAIN b THEN b[k] ELSE a[k]]

loadSettings(storedValue) ==
    [weights |-> Spread(getDefaultSettings.weights, Lookup(storedValue, "weights")),
     fuelPrices |-> Spread(getDefaultSettings.fuelPrices, Lookup(storedValue, "fuelPrices"))]

----------------------------------------------------------------------------
(* popup.js: saveSettings.  The form holds the text of its eight inputs.   *)

\* parseInt: an optional minus sign and the digits that follow; NaN without a digit
parseInt(chars) ==
    IF chars # << >> /\ Head(chars) = "-"
    THEN IF DigitRun(Tail(chars)) = 0 THEN JsNaN
         ELSE Num(R(-DigitsValue(SubSeq(Tail(chars), 1, DigitRun(Tail(chars))))))
    ELSE IF DigitRun(chars) = 0 THEN JsNaN
         ELSE Num(R(DigitsValue(SubSeq(chars, 1, DigitRun(chars)))))

\* x || 0 for a number or NaN
OrZero(x) == IF JsTruthy(x) THEN x.v ELSE R(0)

getWeightsFromForm(form) ==
    [efficiency |-> OrZero(parseInt(form.efficiency)),
     safety |-> OrZero(parseInt(form.safety)),
     valueForMoney |-> OrZero(parseInt(form.value)),
     performancePerEfficiency |-> OrZero(parseInt(form.perf))]

getFuelPricesFromForm(form) ==
    [petrol |-> OrZero(parseFloat(form.petrol)),
     diesel |-> OrZero(parseFloat(form.diesel)),
     cng |-> OrZero(parseFloat(form.cng)),
     electricity |-> OrZero(parseFloat(form.electricity))]

validateFuelPrices(prices) ==
    /\ Gt(prices.petrol, R(0))
    /\ Gt(prices.diesel, R(0))
    /\ Gt(prices.cng, R(0))
    /\ Gt(prices.electricity, R(0))

\* Object.values(weights).reduce((sum, weight) => sum + weight, 0)
totalWeight(weights) ==
    Add(Add(Add(weights.efficiency, weights.safety), weights.valueForMoney),
        weights.performancePerEfficiency)

\* populateForm: the inputs set to the text of the current settings
populateForm(currentSettings) ==
    [weights |-> [efficiency |-> toString(Num(currentSettings.weights.efficiency)),
                  safety |-> toString(Num(currentSettings.weights.safety)),
                  value |-> toString(Num(currentSettings.weights.valueForMoney)),
                  perf |-> toString(Num(currentSettings.weights.performancePerEfficiency))],
     prices |-> [petrol |-> toString(Num(currentSettings.fuelPrices.petrol)),
                 diesel |-> toString(Num(currentSettings.fuelPrices.diesel)),
                 cng |-> toString(Num(currentSettings.fuelPrices.cng)),
                 electricity |-> toString(Num(currentSettings.fuelPrices.electricity))]]

\* what saveSettings does with a form: the status it shows and, when it
\* goes on to write, the settings it writes
saveSettingsOn(weights, fuelPrices) ==
    IF totalWeight(weights) # R(100)
    THEN [write |-> FALSE, status |-> "Weights must total exactly 100%"]
    ELSE IF ~validateFuelPrices(fuelPrices)
    THEN [write |-> FALSE, status |-> "Please enter valid fuel prices"]
    ELSE [write |-> TRUE, settings |-> [weights |-> weights, fuelPrices |-> fuelPrices]]

----------------------------------------------------------------------------
(* scoring.js: validateSpec                                                *)

numericFields == {"mileage", "range", "batteryCapacity", "power", "kerbWeight", "price",
                  "ncapStars", "airbags"}

booleanFields == {"esc", "isofix"}

IsNullish(x) == x = JsNull \/ x = Undefined

\* spec.fuelType.toLowerCase() raises a TypeError on a truthy value that is no string
validateThrows(rawSpec) == JsTruthy(rawSpec.fuelType) /\ rawSpec.fuelType.t # "word"

\* a normalizer that coerces a nullish boolean field as well
validateFieldCoercingNullish(rawSpec, field) ==
    IF field \in numericFields /\ ~IsNullish(rawSpec[field]) THEN parseNumber(rawSpec[field])
    ELSE IF field \in booleanFields THEN Bool(JsTruthy(rawSpec[field]))
    ELSE IF field = "fuelType" /\ JsTruthy(rawSpec[field]) /\ rawSpec[field].t = "word"
    THEN Word(toLowerCase(rawSpec[field].w))
    ELSE rawSpec[field]

validateField(rawSpec, field) ==
    IF field \in numericFields /\ ~IsNullish(rawSpec[field]) THEN parseNumber(rawSpec[field])
    ELSE IF field \in booleanFields /\ ~IsNullish(rawSpec[field])
    THEN Bool(JsTruthy(rawSpec[field]))
    ELSE IF field = "fuelType" /\ JsTruthy(rawSpec[field]) /\ rawSpec[field].t = "word"
    THEN Word(toLowerCase(rawSpec[field].w))
    ELSE rawSpec[field]

validateSpec(rawSpec) == [field \in DOMAIN rawSpec |-> validateField(rawSpec, field)]

\* a normalizer that assigns to the object it was given
rawSpecAfterValidateInPlace(rawSpec) == IF validateThrows(rawSpec) THEN rawSpec ELSE validateSpec(rawSpec)

\* The argument after the call: validateSpec copies rawSpec into a new object
\* ({ ...rawSpec }) and every assignment it makes is to the copy.
rawSpecAfterValidate(rawSpec) == rawSpec

----------------------------------------------------------------------------
(* gemini.js: enhanceSpecWithGemini.  The data of a Gemini response is     *)
(* [normalized, insights]; normalized is Null or a record of fuelType,     *)
(* realWorld (Null or [kmpl, kmkg, kmPerKWh]), kwPerTonne, segment and     *)
(* missing (a sequence of field names).                                    *)

\* obj with obj[key] = value, the key added when obj does not have it
Put(obj, key, value) ==
    [k \in DOMAIN obj \cup {key} |-> IF k = key THEN value ELSE obj[k]]

withFuelType(enhanced, normalized) ==
    IF ~TruthyStr(enhanced.fuelType) /\ TruthyStr(normalized.fuelType)
    THEN [enhanced EXCEPT !.fuelType = normalized.fuelType]
    ELSE enhanced

withRealWorld(enhanced, normalized) ==
    IF ~Truthy(enhanced.mileage) /\ normalized.realWorld # Null
    THEN IF Truthy(normalized.realWorld.kmpl)
         THEN [enhanced EXCEPT !.mileage = normalized.realWorld.kmpl]
         ELSE IF Truthy(normalized.realWorld.kmkg)
         THEN [enhanced EXCEPT !.mileage = normalized.realWorld.kmkg]
         ELSE IF Truthy(normalized.realWorld.kmPerKWh) /\ Truthy(enhanced.batteryCapacity)
         THEN [enhanced EXCEPT !.range = Mul(normalized.realWorld.kmPerKWh,
                                             enhanced.batteryCapacity)]
         ELSE enhanced
    ELSE enhanced

withPowerToWeight(enhanced, normalized) ==
    IF ~Truthy(enhanced.power) /\ ~Truthy(enhanced.kerbWeight) /\ Truthy(normalized.kwPerTonne)
    THEN Put(enhanced, "_geminiPowerToWeight", normalized.kwPerTonne)
    ELSE enhanced

withSegment(enhanced, normalized) ==
    IF TruthyStr(normalized.segment)
    THEN Put(enhanced, "_segment", normalized.segment)
    ELSE enhanced

withMissingFields(enhanced, normalized) ==
    IF normalized.missing # Null /\ Len(normalized.missing) > 0
    THEN Put(enhanced, "_missingFields", normalized.missing)
    ELSE enhanced

enhanceSpecWithGemini(localSpec, geminiData) ==
    IF geminiData = Null \/ geminiData.normalized = Null THEN localSpec
    ELSE withMissingFields(
             withSegment(
                 withPowerToWeight(
                     withRealWorld(withFuelType(localSpec, geminiData.normalized),
                                   geminiData.normalized),
                     geminiData.normalized),
                 geminiData.normalized),
             geminiData.normalized)

\* The localSpec argument after the call: the function writes to the copy
\* { ...localSpec } only.
localSpecAfterEnhance(localSpec, geminiData) == localSpec

\* The insights of a response: an array of [title, detail], or a text (its
\* characters), which has a length as well but is not an array.
InsightArray(items) == [isArray |-> TRUE, items |-> items]
InsightText(chars) == [isArray |-> FALSE, items |-> chars]

\* formatInsights: a title and a detail for every insight of an array, and
\* nothing for a value that is not an array
formatInsights(insights) ==
    IF insights = Null \/ ~insights.isArray THEN << >>
    ELSE [i \in 1..Len(insights.items) |->
             [title |-> IF TruthyStr(insights.items[i].title) THEN insights.items[i].title
                        ELSE "Insight",
              detail |-> IF TruthyStr(insights.items[i].detail) THEN insights.items[i].detail
                         ELSE "No details available"]]

----------------------------------------------------------------------------
(* The input records.  A record holds the fields the scoring functions     *)
(* read; esc and isofix hold the truthiness of the field, which is all     *)
(* the engine tests.                                                       *)

MaxGears == 8
MaxCylinders == 6
MaxStars == 5
MaxAirbags == 6

Nums(S) == {R(i) : i \in S}
Opt(S) == {Null} \cup Nums(S)

EmptySpec ==
    [fuelType |-> NoStr, mileage |-> Null, range |-> Null, batteryCapacity |-> Null,
     displacement |-> Null, cylinders |-> Null, power |-> Null, gears |-> Null,
     transmissionType |-> NoStr, kerbWeight |-> Null, groundClearance |-> Null,
     bodyType |-> NoStr, ncapStars |-> Null, airbags |-> Null, esc |-> FALSE,
     isofix |-> FALSE, price |-> Null]

\* fuelType: the five known types, absent, and two unrecognized ones
FuelTypes == {NoStr, "petrol", "diesel", "hybrid", "cng", "electric", "lpg", "ev"}

TransmissionTypes == {NoStr, "manual", "amt", "cvt", "dct", "automatic", "hybrid", "imt", "CVT",
                      NonString}

BodyTypes == {NoStr, "hatchback", "sedan", "crossover", "mpv", "suv", "coupe", "convertible",
              "wagon", "SUV", NonString}

\* the scenario record of the specification's section 8
ScenarioSpec ==
    [EmptySpec EXCEPT !.fuelType = "petrol", !.displacement = R(1197), !.kerbWeight = R(950),
                      !.cylinders = R(4), !.transmissionType = "manual",
                      !.bodyType = "hatchback", !.gears = R(5)]

EfficiencyFamily ==
    {[EmptySpec EXCEPT !.fuelType = f, !.mileage = m, !.range = rb[1],
                       !.batteryCapacity = rb[2], !.bodyType = b] :
        f \in FuelTypes, m \in Opt({0, 9, 15, 20, 24, 30, 45}),
        rb \in {<<Null, Null>>, <<R(300), Null>>, <<Null, R(40)>>, <<R(300), R(40)>>},
        b \in {NoStr, "suv"}}

PenaltyFamily ==
    {[EmptySpec EXCEPT !.fuelType = "petrol", !.bodyType = "hatchback", !.displacement = d,
                       !.kerbWeight = k, !.transmissionType = t, !.gears = g] :
        d \in Opt({600, 1197, 1400, 2600}), k \in Opt({450, 950, 1100, 2000}),
        t \in TransmissionTypes, g \in Opt(5..MaxGears)}

DesignFamily ==
    {[EmptySpec EXCEPT !.bodyType = b, !.cylinders = c, !.power = p, !.kerbWeight = k,
                       !.groundClearance = gc] :
        b \in BodyTypes, c \in Opt(4..MaxCylinders), p \in Opt({60, 150}),
        k \in Opt({1000}), gc \in Opt({170, 200, 300})}

SafetyFamily ==
    {[EmptySpec EXCEPT !.ncapStars = n, !.airbags = a, !.esc = e, !.isofix = i, !.price = p] :
        n \in Opt(0..MaxStars), a \in Opt(0..MaxAirbags), e \in BOOLEAN, i \in BOOLEAN,
        p \in Opt({12})}

ValueFamily ==
    {[EmptySpec EXCEPT !.fuelType = "petrol", !.price = p, !.power = pk[1],
                       !.kerbWeight = pk[2], !.mileage = m, !.ncapStars = n] :
        p \in Opt({4, 6, 17, 28, 50, 60}),
        pk \in (Opt({40, 60, 100, 150}) \X Opt({1000, 1250})),
        m \in Opt({18, 26}), n \in Opt({5})}

\* two complete records, and each of them with one numeric field set to 0
PetrolSpec ==
    [ScenarioSpec EXCEPT !.mileage = R(20), !.power = R(66), !.groundClearance = R(170),
                         !.ncapStars = R(4), !.airbags = R(2), !.esc = TRUE, !.price = R(8)]

ElectricSpec ==
    [EmptySpec EXCEPT !.fuelType = "electric", !.range = R(300), !.batteryCapacity = R(40),
                      !.power = R(100), !.kerbWeight = R(1400), !.bodyType = "suv",
                      !.transmissionType = "automatic", !.airbags = R(6), !.price = R(15)]

ScoredNumericFields ==
    {"mileage", "range", "batteryCapacity", "displacement", "cylinders", "power", "gears",
     "kerbWeight", "groundClearance", "ncapStars", "airbags", "price"}

ZeroFamily ==
    {PetrolSpec, ElectricSpec} \cup
    {[spec EXCEPT ![field] = R(0)] :
        spec \in {PetrolSpec, ElectricSpec}, field \in ScoredNumericFields}

\* displacement and kerb weight on the boundaries of the penalty bands
ThresholdFamily ==
    {[EmptySpec EXCEPT !.displacement = d, !.kerbWeight = k] :
        d \in Nums({1000, 1200, 1500}), k \in Nums({900, 1000, 1200})}

\* measured mileages from 0.25 to MaxMileage km per unit of fuel in steps of
\* 0.25, for every fuel type and for a light and a heavy design
MaxMileage == 50

Mileages == {Q(k, 4) : k \in 1..(4 * MaxMileage)}

MileageDesigns ==
    {EmptySpec,
     [EmptySpec EXCEPT !.bodyType = "suv", !.displacement = R(2600), !.kerbWeight = R(2000),
                       !.transmissionType = "automatic"]}

MileageFamily ==
    {[design EXCEPT !.fuelType = f, !.mileage = m] :
        design \in MileageDesigns, f \in FuelTypes, m \in Mileages}

\* local records that have or lack what a Gemini response can supply
LocalFamily ==
    {[EmptySpec EXCEPT !.fuelType = f, !.mileage = m, !.range = r, !.batteryCapacity = b,
                       !.power = pk[1], !.kerbWeight = pk[2]] :
        f \in {NoStr, "petrol", "electric"}, m \in Opt({0, 18}), r \in Opt({300}),
        b \in Opt({40}),
        pk \in {<<Null, Null>>, <<R(100), Null>>, <<R(100), R(1400)>>}}

\* the realWorld object of a response: absent, or at most one figure given
RealWorldFigures ==
    {Null} \cup
    {[kmpl |-> f[1], kmkg |-> f[2], kmPerKWh |-> f[3]] :
        f \in {<<Null, Null, Null>>, <<R(18), Null, Null>>, <<Null, R(25), Null>>,
               <<Null, Null, R(6)>>}}

NormalizedData ==
    [fuelType : {NoStr, "diesel"}, realWorld : RealWorldFigures, kwPerTonne : Opt({70}),
     segment : {NoStr, "hatchback"}, missing : {<< >>, <<"price">>}]

GeminiData ==
    {Null} \cup [normalized : {Null} \cup NormalizedData, insights : {InsightArray(<< >>)}]

\* the text of a weight input: empty, whole numbers, a negative number, a
\* decimal and a letter
WeightTexts ==
    {<< >>, <<"2", "5">>, <<"5", "0">>, <<"1", "5", "0">>, <<"-", "5", "0">>,
     <<"2", "5", ".", "5">>, <<"k">>}

WeightForms == [efficiency : WeightTexts, safety : WeightTexts, value : WeightTexts,
                perf : WeightTexts]

\* the prices of the defaults, decimal prices, and forms with an empty, a
\* zero, a negative and a non-numeric price
PriceForms ==
    {[petrol |-> t[1], diesel |-> t[2], cng |-> t[3], electricity |-> t[4]] :
        t \in {<<<<"1", "1", "0">>, <<"9", "5">>, <<"8", "0">>, <<"9">>>>,
               <<<<"1", "0", "5", ".", "5">>, <<"9", "5">>, <<"8", "0">>, <<"9", ".", "2", "5">>>>,
               <<<<"1", "1", "0">>, << >>, <<"8", "0">>, <<"9">>>>,
               <<<<"0">>, <<"9", "5">>, <<"8", "0">>, <<"9">>>>,
               <<<<"1", "1", "0">>, <<"9", "5">>, <<"-", "8", "0">>, <<"9">>>>,
               <<<<"1", "1", "0">>, <<"9", "5">>, <<"8", "0">>, <<"k">>>>}}

\* what the extractors find on the pages visited: a petrol record without
\* its mileage and an electric record
PageSpecs == {[PetrolSpec EXCEPT !.mileage = Null], ElectricSpec}

\* an analysis finds no extractor for the page, or the extraction throws, or
\* it returns a record
PageOutcomes ==
    {[outcome |-> "none", spec |-> Null], [outcome |-> "throws", spec |-> Null]}
        \cup {[outcome |-> "extracted", spec |-> spec] : spec \in PageSpecs}

\* what CarEfficiencyGemini.fetchGeminiInsights resolves to: its fallback, a
\* response with a mileage and a segment and an empty array of insights, and
\* a response with an electric figure and a text in place of the array
ResponseData ==
    {[normalized |-> [fuelType |-> NoStr,
                      realWorld |-> [kmpl |-> Null, kmkg |-> Null, kmPerKWh |-> Null],
                      kwPerTonne |-> Null, segment |-> NoStr,
                      missing |-> <<"AI analysis failed">>],
      insights |-> InsightArray(<<[title |-> "AI Analysis Unavailable",
                                   detail |-> "Using local analysis only."]>>)],
     [normalized |-> [fuelType |-> "petrol",
                      realWorld |-> [kmpl |-> R(18), kmkg |-> Null, kmPerKWh |-> Null],
                      kwPerTonne |-> Null, segment |-> "hatchback", missing |-> << >>],
      insights |-> InsightArray(<< >>)],
     [normalized |-> [fuelType |-> "electric",
                      realWorld |-> [kmpl |-> Null, kmkg |-> Null, kmPerKWh |-> R(6)],
                      kwPerTonne |-> Null, segment |-> NoStr, missing |-> << >>],
      insights |-> InsightText(<<"n", "/", "a">>)]}

\* what chrome.storage.sync holds under carEfficiencySettings: nothing (or
\* the {} of the migration), the defaults written at installation, and
\* settings saved by the popup, which always have four weights and four prices
StoredValues ==
    {Null, getDefaultSettings,
     [weights |-> [efficiency |-> R(25), safety |-> R(25), valueForMoney |-> R(25),
                   performancePerEfficiency |-> R(25)],
      fuelPrices |-> [petrol |-> R(100), diesel |-> R(90), cng |-> R(75), electricity |-> R(8)]]}

\* the enrichment requests in flight at one time
MaxPending == 2

Records ==
    {ScenarioSpec} \cup EfficiencyFamily \cup PenaltyFamily \cup DesignFamily
        \cup SafetyFamily \cup ValueFamily \cup ZeroFamily \cup ThresholdFamily

\* weight configurations: four non-negative integers summing to 100
WeightConfigs ==
    {[efficiency |-> R(w[1]), safety |-> R(w[2]), valueForMoney |-> R(w[3]),
      performancePerEfficiency |-> R(w[4])] :
        w \in {<<35, 30, 25, 10>>, <<100, 0, 0, 0>>, <<0, 100, 0, 0>>, <<0, 0, 100, 0>>,
               <<0, 0, 0, 100>>, <<25, 25, 25, 25>>, <<1, 33, 33, 33>>}}

----------------------------------------------------------------------------
(* The raw records validateSpec is given.                                  *)

MaxLen == 3

\* the numeric fields of a record
AllNumericFields ==
    numericFields \cup {"displacement", "cylinders", "torque", "gears", "length", "width",
                        "height", "groundClearance"}

RawFields == AllNumericFields \cup booleanFields \cup {"fuelType", "carName"}

EmptyRaw == [field \in RawFields |-> Undefined]

\* a digit or two, a point, a sign, a thousands separator and a unit letter
Alphabet == {"1", "5", ".", "-", ",", "k"}

RECURSIVE Texts(_)
Texts(n) ==
    IF n = 0 THEN {<< >>}
    ELSE Texts(n - 1) \cup {Append(t, c) : t \in Texts(n - 1), c \in Alphabet}

RawValues ==
    {Undefined, JsNull, JsNaN, Bool(TRUE), Bool(FALSE), Num(R(0)), Num(R(15)), Num(R(-5)),
     Num(Q(185, 10))} \cup {Str(t) : t \in Texts(MaxLen)}

RawNumericFamily == {[EmptyRaw EXCEPT ![f] = x] : f \in AllNumericFields, x \in RawValues}

RawOtherFamily ==
    {[EmptyRaw EXCEPT !.esc = e, !.isofix = i, !.fuelType = f, !.carName = c] :
        e \in {Undefined, JsNull, Bool(TRUE), Bool(FALSE), Num(R(0)), Num(R(1)), Str(<< >>),
               Str(<<"1">>)},
        i \in {Undefined, Bool(FALSE), Word("yes")},
        f \in {Undefined, JsNull, Word(NoStr), Word("Petrol"), Word("diesel"), Word("lpg"),
               Num(R(95))},
        c \in {Undefined, Word("Swift")}}

RawRecords == RawNumericFamily \cup RawOtherFamily

----------------------------------------------------------------------------
(* State: the record the caller holds, the call in progress (the function  *)
(* and, for calculateCompositeScore, the weights it was given) and what    *)
(* the call returned.  The engine is synchronous: the caller makes one     *)
(* call at a time and takes its result before making the next.             *)

VARIABLES currentSpec, currentScore, rawSpec, call, ret

\* The extension around the engine: the settings, the processing flag, the
\* overlay elements in the page and the Gemini requests in flight of the
\* content script (content.js); the timer of the debounced function and what
\* happened since it was last called (utils.js); the settings in
\* chrome.storage.sync; the popup (popup.js).  calculateCompositeScore and
\* enhanceSpecWithGemini are pure: computed holds their results for the
\* records and settings of the controller, worked out once and then read.
VARIABLES settings, isProcessing, overlays, pending, timeout, burst, stored, popup, computed

extension == <<settings, isProcessing, overlays, pending, timeout, burst, stored, popup, computed>>

vars == <<currentSpec, currentScore, rawSpec, call, ret, extension>>

\* the content script and the popup not yet started
NotStarted ==
    /\ settings = Null
    /\ isProcessing = FALSE
    /\ overlays = << >>
    /\ pending = << >>
    /\ timeout = Null
    /\ burst = [calls |-> 0, bursts |-> 0, args |-> NoStr, quiet |-> 0, ran |-> << >>]
    /\ stored = Null
    /\ popup = Null
    /\ computed = Null

\* the caller's records: no function of the engine writes to its arguments
inputs == <<currentSpec, rawSpec>>

Idle == [fn |-> "none"]
Threw == [threw |-> TRUE]
Returned(v) == [threw |-> FALSE, value |-> v]
Outcome(throws, v) == IF throws THEN Threw ELSE Returned(v)

Init ==
    /\ currentSpec \in Records
    /\ currentScore = Null
    /\ rawSpec = EmptyRaw
    /\ call = Idle
    /\ ret = Returned(Null)
    /\ NotStarted

CallEfficiencyPenalty ==
    /\ call = Idle
    /\ call' = [fn |-> "calculateEfficiencyPenalty"]
    /\ ret' = Outcome(penaltyThrows(currentSpec), calculateEfficiencyPenalty(currentSpec))
    /\ UNCHANGED <<inputs, currentScore>>
    /\ UNCHANGED extension

CallRealWorldEfficiency ==
    /\ call = Idle
    /\ call' = [fn |-> "calculateRealWorldEfficiency"]
    /\ ret' = Outcome(realWorldEfficiencyThrows(currentSpec),
                      calculateRealWorldEfficiency(currentSpec))
    /\ UNCHANGED <<inputs, currentScore>>
    /\ UNCHANGED extension

CallCostPerKm ==
    /\ call = Idle
    /\ call' = [fn |-> "calculateCostPerKm"]
    /\ ret' = Outcome(realWorldEfficiencyThrows(currentSpec),
                      calculateCostPerKm(currentSpec, getDefaultSettings.fuelPrices))
    /\ UNCHANGED <<inputs, currentScore>>
    /\ UNCHANGED extension

CallEfficiencyScore ==
    /\ call = Idle
    /\ call' = [fn |-> "calculateEfficiencyScore"]
    /\ ret' = Outcome(efficiencyScoreThrows(currentSpec), calculateEfficiencyScore(currentSpec))
    /\ UNCHANGED <<inputs, currentScore>>
    /\ UNCHANGED extension

CallSafetyScore ==
    /\ call = Idle
    /\ call' = [fn |-> "calculateSafetyScore"]
    /\ ret' = Returned(calculateSafetyScore(currentSpec))
    /\ UNCHANGED <<inputs, currentScore>>
    /\ UNCHANGED extension

CallCompositeScore ==
    /\ call = Idle
    /\ \E w \in WeightConfigs :
        /\ call' = [fn |-> "calculateCompositeScore", weights |-> w]
        /\ ret' = Outcome(compositeThrows(currentSpec),
                          calculateCompositeScore(currentSpec, w, getDefaultSettings.fuelPrices))
    /\ currentSpec' = specAfterCompositeScore(currentSpec)
    /\ UNCHANGED <<rawSpec, currentScore>>
    /\ UNCHANGED extension

\* calculateValueScore and calculatePerformancePerEfficiencyScore take the
\* sub-scores computed so far as arguments: the ones calculateCompositeScore
\* passes for this record, or the best possible ones
ScoreArguments(spec) ==
    {<<R(1), R(1)>>} \cup
    (IF efficiencyScoreThrows(spec) THEN {}
     ELSE {<<calculateEfficiencyScore(spec), calculateSafetyScore(spec)>>})

CallValueScore ==
    /\ call = Idle
    /\ \E es \in ScoreArguments(currentSpec) :
        /\ call' = [fn |-> "calculateValueScore", efficiencyScore |-> es[1],
                    safetyScore |-> es[2]]
        /\ ret' = Returned(calculateValueScore(currentSpec, es[1], es[2]))
    /\ UNCHANGED <<inputs, currentScore>>
    /\ UNCHANGED extension

CallPerformancePerEfficiencyScore ==
    /\ call = Idle
    /\ \E es \in ScoreArguments(currentSpec) :
        /\ call' = [fn |-> "calculatePerformancePerEfficiencyScore", efficiencyScore |-> es[1]]
        /\ ret' = Returned(calculatePerformancePerEfficiencyScore(currentSpec, es[1]))
    /\ UNCHANGED <<inputs, currentScore>>
    /\ UNCHANGED extension

\* the caller takes the result
Return ==
    /\ call # Idle
    /\ call' = Idle
    /\ ret' = Returned(Null)
    /\ UNCHANGED <<inputs, currentScore>>
    /\ UNCHANGED extension

Next ==
    \/ CallEfficiencyPenalty
    \/ CallRealWorldEfficiency
    \/ CallCostPerKm
    \/ CallEfficiencyScore
    \/ CallSafetyScore
    \/ CallValueScore
    \/ CallPerformancePerEfficiencyScore
    \/ CallCompositeScore
    \/ Return

Spec == Init /\ [][Next]_vars

----------------------------------------------------------------------------
(* Re-scoring: the caller keeps the result of calculateCompositeScore in   *)
(* currentScore and scores the record again, other calls in between.       *)

StoreScore ==
    /\ call.fn = "calculateCompositeScore"
    /\ ~ret.threw
    /\ currentScore' = [weights |-> call.weights, score |-> ret.value]
    /\ call' = Idle
    /\ ret' = Returned(Null)
    /\ UNCHANGED inputs
    /\ UNCHANGED extension

InitRescore ==
    /\ currentSpec \in {ScenarioSpec} \cup ZeroFamily \cup ThresholdFamily
    /\ currentScore = Null
    /\ rawSpec = EmptyRaw
    /\ call = Idle
    /\ ret = Returned(Null)
    /\ NotStarted

NextRescore ==
    \/ Next
    \/ StoreScore

SpecRescore == InitRescore /\ [][NextRescore]_vars

----------------------------------------------------------------------------
(* The normalizer on its own: validateSpec applied to a raw record.        *)

InitValidate ==
    /\ currentSpec = EmptySpec
    /\ currentScore = Null
    /\ rawSpec \in RawRecords
    /\ call = Idle
    /\ ret = Returned(Null)
    /\ NotStarted

CallValidateSpec ==
    /\ call = Idle
    /\ call' = [fn |-> "validateSpec"]
    /\ ret' = Outcome(validateThrows(rawSpec), validateSpec(rawSpec))
    /\ rawSpec' = rawSpecAfterValidate(rawSpec)
    /\ UNCHANGED <<currentSpec, currentScore>>
    /\ UNCHANGED extension

NextValidate ==
    \/ CallValidateSpec
    \/ Return

SpecValidate == InitValidate /\ [][NextValidate]_vars

----------------------------------------------------------------------------
(* The efficiency score on its own: calculateEfficiencyScore applied to    *)
(* records with a measured mileage.                                        *)

InitMileage ==
    /\ currentSpec \in MileageFamily
    /\ currentScore = Null
    /\ rawSpec = EmptyRaw
    /\ call = Idle
    /\ ret = Returned(Null)
    /\ NotStarted

NextMileage ==
    \/ CallEfficiencyScore
    \/ Return

SpecMileage == InitMileage /\ [][NextMileage]_vars

----------------------------------------------------------------------------
(* The enrichment on its own: enhanceSpecWithGemini applied to a local     *)
(* record and the data of a response.                                      *)

InitEnhance ==
    /\ currentSpec \in LocalFamily
    /\ currentScore = Null
    /\ rawSpec = EmptyRaw
    /\ call = Idle
    /\ ret = Returned(Null)
    /\ NotStarted

CallEnhanceSpecWithGemini ==
    /\ call = Idle
    /\ \E geminiData \in GeminiData :
        /\ call' = [fn |-> "enhanceSpecWithGemini", geminiData |-> geminiData]
        /\ ret' = Returned(enhanceSpecWithGemini(currentSpec, geminiData))
        /\ currentSpec' = localSpecAfterEnhance(currentSpec, geminiData)
    /\ UNCHANGED <<rawSpec, currentScore>>
    /\ UNCHANGED extension

NextEnhance ==
    \/ CallEnhanceSpecWithGemini
    \/ Return

SpecEnhance == InitEnhance /\ [][NextEnhance]_vars

----------------------------------------------------------------------------
(* utils.js: debounce.  Time advances in ticks; a timer set by setTimeout  *)
(* is [due, args]: the ticks left until its callback runs and the          *)
(* arguments the callback was created with.  A timer that is due runs      *)
(* before time advances and before any other event of that instant.        *)

\* the wait of the debounced function, in ticks
Wait == 2

\* the calls made in one behaviour
MaxCalls == 4

CallArgs == {"a", "b", "c"}

\* a debounced function that leaves a running timer alone
timeoutAfterCallKeepingTimer(timer, args) ==
    IF timer = Null THEN [due |-> Wait, args |-> args] ELSE timer

\* executedFunction(...args): clearTimeout(timeout); timeout = setTimeout(later, wait)
timeoutAfterCall(timer, args) == [due |-> Wait, args |-> args]

\* what happened to the debounced function so far: the number of calls, the
\* number of bursts (a call made while no timer is running starts one), the
\* arguments of the last call, the ticks since the last call, and the
\* arguments of every run of func
burstAfterCall(b, timer, args) ==
    [calls |-> b.calls + 1,
     bursts |-> IF timer = Null THEN b.bursts + 1 ELSE b.bursts,
     args |-> args,
     quiet |-> 0,
     ran |-> b.ran]

InitDebounce ==
    /\ currentSpec = EmptySpec
    /\ currentScore = Null
    /\ rawSpec = EmptyRaw
    /\ call = Idle
    /\ ret = Returned(Null)
    /\ NotStarted

\* no timer is due at this instant
NoneDue == IF timeout = Null THEN TRUE ELSE timeout.due > 0

\* a call of the function debounce returned
DebouncedCall ==
    /\ NoneDue
    /\ burst.calls < MaxCalls
    /\ \E args \in CallArgs :
        /\ timeout' = timeoutAfterCall(timeout, args)
        /\ burst' = burstAfterCall(burst, timeout, args)
    /\ UNCHANGED <<currentSpec, currentScore, rawSpec, call, ret>>
    /\ UNCHANGED <<settings, isProcessing, overlays, pending, stored, popup, computed>>

\* one tick of time
Tick ==
    /\ NoneDue
    /\ timeout' = IF timeout = Null THEN Null ELSE [timeout EXCEPT !.due = @ - 1]
    /\ burst' = IF burst.calls = 0 THEN burst
                ELSE [burst EXCEPT !.quiet = IF @ > Wait THEN @ ELSE @ + 1]
    /\ UNCHANGED <<currentSpec, currentScore, rawSpec, call, ret>>
    /\ UNCHANGED <<settings, isProcessing, overlays, pending, stored, popup, computed>>

\* later(): clearTimeout(timeout); func(...args)
Later ==
    /\ ~NoneDue
    /\ timeout' = Null
    /\ burst' = [burst EXCEPT !.ran = Append(@, timeout.args)]
    /\ UNCHANGED <<currentSpec, currentScore, rawSpec, call, ret>>
    /\ UNCHANGED <<settings, isProcessing, overlays, pending, stored, popup, computed>>

NextDebounce ==
    \/ DebouncedCall
    \/ Tick
    \/ Later

SpecDebounce == InitDebounce /\ [][NextDebounce]_vars

\* time advances, and a timer that is due runs its callback
SpecDebounceFair == SpecDebounce /\ WF_vars(Tick) /\ WF_vars(Later)

----------------------------------------------------------------------------
(* popup.js: the popup, opened on what chrome.storage.sync holds (nothing, *)
(* or the defaults the service worker wrote at installation), with the     *)
(* form as the user has filled it in.                                      *)

InitPopup ==
    /\ currentSpec = EmptySpec
    /\ currentScore = Null
    /\ rawSpec = EmptyRaw
    /\ call = Idle
    /\ ret = Returned(Null)
    /\ settings = Null
    /\ isProcessing = FALSE
    /\ overlays = << >>
    /\ pending = << >>
    /\ timeout = Null
    /\ burst = [calls |-> 0, bursts |-> 0, args |-> NoStr, quiet |-> 0, ran |-> << >>]
    /\ stored \in {Null, getDefaultSettings}
    /\ computed = Null
    /\ \E weightForm \in WeightForms, priceForm \in PriceForms :
        popup = [currentSettings |-> loadSettings(stored), status |-> NoStr,
                 form |-> [weights |-> weightForm, prices |-> priceForm]]

\* saveSettings; the write to storage succeeds or fails
SaveSettings ==
    /\ \E written \in BOOLEAN :
         LET saved == saveSettingsOn(getWeightsFromForm(popup.form.weights),
                                     getFuelPricesFromForm(popup.form.prices))
         IN  IF ~saved.write
             THEN /\ stored' = stored
                  /\ popup' = [popup EXCEPT !.status = saved.status]
             ELSE IF written
             THEN /\ stored' = saved.settings
                  /\ popup' = [popup EXCEPT !.currentSettings = saved.settings,
                                            !.status = "Settings saved successfully!"]
             ELSE /\ stored' = stored
                  /\ popup' = [popup EXCEPT !.status = "Failed to save settings"]
    /\ UNCHANGED <<currentSpec, currentScore, rawSpec, call, ret>>
    /\ UNCHANGED <<settings, isProcessing, overlays, pending, timeout, burst, computed>>

ResetToDefaults ==
    /\ popup' = [currentSettings |-> getDefaultSettings, status |-> "Reset to default values",
                 form |-> populateForm(getDefaultSettings)]
    /\ UNCHANGED <<currentSpec, currentScore, rawSpec, call, ret>>
    /\ UNCHANGED <<settings, isProcessing, overlays, pending, timeout, burst, stored, computed>>

NextPopup ==
    \/ SaveSettings
    \/ ResetToDefaults

SpecPopup == InitPopup /\ [][NextPopup]_vars

----------------------------------------------------------------------------
(* content.js: the controller of the content script.  Every handler runs   *)
(* to completion before the next event is taken; the only suspension is    *)
(* the await of the Gemini call in fetchGeminiInsights.  overlays is the   *)
(* sequence of the elements with the overlay id in the page, each a        *)
(* [kind, insights]: a score overlay shows the loading placeholder, the    *)
(* list of insights or 'No AI insights available'; an error overlay has no *)
(* insights container.  pending holds a [spec] for every Gemini request in *)
(* flight: the record it was sent for.                                     *)

\* calculateCompositeScore(spec, settings.weights, settings.fuelPrices).  A
\* weight that settings.weights does not have is undefined and makes the
\* composite NaN; the breakdown and the metrics do not read the weights.
scoreWithSettings(spec, s) ==
    IF DOMAIN s.weights = DOMAIN getDefaultSettings.weights
    THEN calculateCompositeScore(spec, s.weights, s.fuelPrices)
    ELSE LET rest == calculateCompositeScore(spec, getDefaultSettings.weights, s.fuelPrices)
         IN  [compositeIsNaN |-> TRUE, breakdown |-> rest.breakdown, metrics |-> rest.metrics]

\* a settings listener that takes the defaults whatever was stored
settingsAfterChangeToDefaults(newValue) == getDefaultSettings

\* the settings listener: { ...getDefaultSettings(), ...newValue }
settingsAfterChange(newValue) == Spread(getDefaultSettings, newValue)

\* the records the controller can hold: the given ones and their enrichments
\* by the responses
Enriched(specs) ==
    specs \cup {enhanceSpecWithGemini(spec, geminiData) :
                    spec \in specs, geminiData \in ResponseData}

\* the scores of the records under the settings, and their enrichments
computedFor(specs, settingsOf) ==
    [scores |-> {[spec |-> spec, settings |-> s, score |-> scoreWithSettings(spec, s)] :
                    spec \in specs, s \in settingsOf},
     enhanced |-> {[spec |-> spec, geminiData |-> geminiData,
                    enhancedSpec |-> enhanceSpecWithGemini(spec, geminiData)] :
                      spec \in specs, geminiData \in ResponseData}]

\* this.currentScore = CarEfficiencyScoring.calculateCompositeScore(...)
scoreFor(table, spec, s) ==
    (CHOOSE entry \in table.scores : entry.spec = spec /\ entry.settings = s).score

\* const enhancedSpec = CarEfficiencyGemini.enhanceSpecWithGemini(this.currentSpec, geminiData)
enhancedFor(table, spec, geminiData) ==
    (CHOOSE entry \in table.enhanced :
         entry.spec = spec /\ entry.geminiData = geminiData).enhancedSpec

\* a removeOverlay that finds nothing to remove
removeOverlayNothing(ov) == ov

\* removeOverlay: the first element with the overlay id is removed
removeOverlay(ov) == IF ov = << >> THEN ov ELSE Tail(ov)

displayOverlay(ov, score, spec) ==
    IF score = Null \/ spec = Null THEN ov
    ELSE Append(removeOverlay(ov), [kind |-> "score", insights |-> "loading"])

showError(ov) == Append(removeOverlay(ov), [kind |-> "error", insights |-> "absent"])

\* the first element of the page that holds an insights container, 0 if none does
insightsContainer(ov) ==
    IF \E i \in 1..Len(ov) : ov[i].kind = "score"
    THEN CHOOSE i \in 1..Len(ov) :
            ov[i].kind = "score" /\ \A j \in 1..(i - 1) : ov[j].kind # "score"
    ELSE 0

addInsightsToOverlayAt(ov, container, formattedInsights) ==
    IF container = 0 THEN ov
    ELSE [ov EXCEPT ![container].insights =
                        IF Len(formattedInsights) = 0 THEN "none" ELSE "list"]

addInsightsToOverlay(ov, insights) ==
    addInsightsToOverlayAt(ov, insightsContainer(ov), formatInsights(insights))

\* a calculateAndDisplayScore that displays the score it has without computing it again
calculateAndDisplayScoreKept(table, spec, s, score, ov) ==
    IF spec = Null \/ s = Null THEN [score |-> score, overlays |-> ov]
    ELSE IF compositeThrows(spec) THEN [score |-> score, overlays |-> showError(ov)]
    ELSE IF score = Null
    THEN LET scored == scoreFor(table, spec, s)
         IN  [score |-> scored, overlays |-> displayOverlay(ov, scored, spec)]
    ELSE [score |-> score, overlays |-> displayOverlay(ov, score, spec)]

\* calculateAndDisplayScore: the score and the overlays it leaves
calculateAndDisplayScore(table, spec, s, score, ov) ==
    IF spec = Null \/ s = Null THEN [score |-> score, overlays |-> ov]
    ELSE IF compositeThrows(spec) THEN [score |-> score, overlays |-> showError(ov)]
    ELSE LET scored == scoreFor(table, spec, s)
         IN  [score |-> scored, overlays |-> displayOverlay(ov, scored, spec)]

\* analyzeCurrentPage on a page with the given outcome of the extraction:
\* the spec, the score, the overlays and the requests it leaves
analysisOf(table, page, spec, s, score, ov, requests) ==
    IF page.outcome = "none"
    THEN [spec |-> spec, score |-> score, overlays |-> removeOverlay(ov), pending |-> requests]
    ELSE IF page.outcome = "throws"
    THEN [spec |-> spec, score |-> score, overlays |-> showError(removeOverlay(ov)),
          pending |-> requests]
    ELSE LET displayed == calculateAndDisplayScore(table, page.spec, s, score, removeOverlay(ov))
         IN  [spec |-> page.spec, score |-> displayed.score, overlays |-> displayed.overlays,
              pending |-> Append(requests, [spec |-> page.spec])]

\* analyzeCurrentPage: nothing while isProcessing is set; the flag is set on
\* entry and cleared in the finally block, before the handler returns
AnalyzeCurrentPage ==
    /\ Len(pending) < MaxPending
    /\ IF isProcessing
       THEN UNCHANGED <<currentSpec, currentScore, overlays, pending>>
       ELSE \E page \in PageOutcomes :
               LET analysis == analysisOf(computed, page, currentSpec, settings,
                                          currentScore, overlays, pending)
               IN  /\ currentSpec' = analysis.spec
                   /\ currentScore' = analysis.score
                   /\ overlays' = analysis.overlays
                   /\ pending' = analysis.pending
    /\ isProcessing' = FALSE

InitController ==
    /\ currentSpec = Null
    /\ currentScore = Null
    /\ rawSpec = EmptyRaw
    /\ call = Idle
    /\ ret = Returned(Null)
    /\ stored \in {Null, getDefaultSettings}
    /\ settings = loadSettings(stored)
    /\ isProcessing = FALSE
    /\ overlays = << >>
    /\ pending = << >>
    /\ timeout = Null
    /\ burst = [calls |-> 0, bursts |-> 0, args |-> NoStr, quiet |-> 0, ran |-> << >>]
    /\ popup = Null
    /\ computed = computedFor(Enriched(Enriched(Enriched(PageSpecs))),
                              {loadSettings(storedValue) : storedValue \in StoredValues})

\* the 'analyzeCurrentPage' message of the popup
AnalyzeMessage ==
    /\ NoneDue
    /\ AnalyzeCurrentPage
    /\ UNCHANGED <<rawSpec, call, ret, settings, timeout, burst, stored, popup, computed>>

\* the refresh button of the score overlay: debouncedAnalyze()
RefreshClick ==
    /\ NoneDue
    /\ \E i \in 1..Len(overlays) : overlays[i].kind = "score"
    /\ timeout' = timeoutAfterCall(timeout, << >>)
    /\ UNCHANGED <<currentSpec, currentScore, rawSpec, call, ret>>
    /\ UNCHANGED <<settings, isProcessing, overlays, pending, burst, stored, popup, computed>>

\* the retry button of the error overlay: debouncedAnalyze()
RetryClick ==
    /\ NoneDue
    /\ \E i \in 1..Len(overlays) : overlays[i].kind = "error"
    /\ timeout' = timeoutAfterCall(timeout, << >>)
    /\ UNCHANGED <<currentSpec, currentScore, rawSpec, call, ret>>
    /\ UNCHANGED <<settings, isProcessing, overlays, pending, burst, stored, popup, computed>>

\* the close button of an overlay
CloseClick ==
    /\ NoneDue
    /\ overlays # << >>
    /\ overlays' = removeOverlay(overlays)
    /\ UNCHANGED <<currentSpec, currentScore, rawSpec, call, ret>>
    /\ UNCHANGED <<settings, isProcessing, pending, timeout, burst, stored, popup, computed>>

\* later() of the debounced analysis: func is () => this.analyzeCurrentPage()
LaterAnalyze ==
    /\ ~NoneDue
    /\ timeout' = Null
    /\ AnalyzeCurrentPage
    /\ UNCHANGED <<rawSpec, call, ret, settings, burst, stored, popup, computed>>

\* chrome.storage.onChanged for carEfficiencySettings
StorageChanged ==
    /\ NoneDue
    /\ \E newValue \in StoredValues \ {stored} :
        /\ stored' = newValue
        /\ settings' = settingsAfterChange(newValue)
        /\ LET displayed == calculateAndDisplayScore(computed, currentSpec,
                                                     settingsAfterChange(newValue),
                                                     currentScore, overlays)
           IN  /\ currentScore' = displayed.score
               /\ overlays' = displayed.overlays
    /\ UNCHANGED <<currentSpec, rawSpec, call, ret>>
    /\ UNCHANGED <<isProcessing, pending, timeout, burst, popup, computed>>

\* what fetchGeminiInsights does once the data has arrived: the record is
\* replaced and scored again if the enhanced one differs, then the insights
\* are added if the response has any
afterResponse(table, geminiData, spec, s, score, ov) ==
    LET enhancedSpec == IF geminiData.normalized # Null
                        THEN enhancedFor(table, spec, geminiData)
                        ELSE spec
        displayed == IF enhancedSpec # spec
                     THEN calculateAndDisplayScore(table, enhancedSpec, s, score, ov)
                     ELSE [score |-> score, overlays |-> ov]
    IN  [spec |-> enhancedSpec,
         score |-> displayed.score,
         overlays |-> IF geminiData.insights # Null /\ Len(geminiData.insights.items) > 0
                      THEN addInsightsToOverlay(displayed.overlays, geminiData.insights)
                      ELSE displayed.overlays]

\* fetchGeminiInsights resumes with the data of a request in flight
GeminiResponds ==
    /\ NoneDue
    /\ \E i \in 1..Len(pending), geminiData \in ResponseData :
        /\ pending' = SubSeq(pending, 1, i - 1) \o SubSeq(pending, i + 1, Len(pending))
        /\ LET response == afterResponse(computed, geminiData, currentSpec, settings,
                                          currentScore, overlays)
           IN  /\ currentSpec' = response.spec
               /\ currentScore' = response.score
               /\ overlays' = response.overlays
    /\ UNCHANGED <<rawSpec, call, ret>>
    /\ UNCHANGED <<settings, isProcessing, timeout, burst, stored, popup, computed>>

NextController ==
    \/ AnalyzeMessage
    \/ RefreshClick
    \/ RetryClick
    \/ CloseClick
    \/ Tick
    \/ LaterAnalyze
    \/ StorageChanged
    \/ GeminiResponds

SpecController == InitController /\ [][NextController]_vars

\* every Gemini request completes, time advances and a due timer runs
SpecControllerFair ==
    SpecController /\ WF_vars(GeminiResponds) /\ WF_vars(Tick) /\ WF_vars(LaterAnalyze)

----------------------------------------------------------------------------
(* Properties of the scoring engine                                        *)

Called(fn) == call.fn = fn /\ ~ret.threw

InUnit(x) == Ge(x, R(0)) /\ Le(x, R(1))

\* C1: for every weight configuration summing to 100 and every record,
\* calculateCompositeScore returns composite = round of the weighted sum of the
\* four unrounded sub-scores, an integer in 0..100.
C1_CompositeIsRoundedWeightedSum ==
    Called("calculateCompositeScore") =>
        LET e == calculateEfficiencyScore(currentSpec)
            sf == calculateSafetyScore(currentSpec)
            v == calculateValueScore(currentSpec, e, sf)
            pe == calculatePerformancePerEfficiencyScore(currentSpec, e)
            w == call.weights
            sum == Add(Add(Mul(e, w.efficiency), Mul(sf, w.safety)),
                       Add(Mul(v, w.valueForMoney), Mul(pe, w.performancePerEfficiency)))
        IN  /\ ret.value.composite = MathRound(sum)
            /\ ret.value.composite \in 0..100

\* a composite of a mixed weight configuration in which all four sub-scores count
C1_Witness ==
    /\ Called("calculateCompositeScore")
    /\ call.weights.efficiency = R(1)
    /\ ret.value.breakdown.efficiency > 0
    /\ ret.value.breakdown.safety > 0
    /\ ret.value.breakdown.valueForMoney > 0
    /\ ret.value.breakdown.performancePerEfficiency > 0
    /\ ret.value.composite > 0

\* C2: calculateCompositeScore on the record with every optional field absent,
\* with the default weights and fuel prices, does not throw and returns a
\* composite and four breakdown values that are integers in 0..100.
C2_EmptyRecordIsScored ==
    (currentSpec = EmptySpec /\ call.fn = "calculateCompositeScore"
        /\ call.weights = getDefaultSettings.weights) =>
        /\ ~ret.threw
        /\ ret.value.composite \in 0..100
        /\ ret.value.breakdown.efficiency \in 0..100
        /\ ret.value.breakdown.safety \in 0..100
        /\ ret.value.breakdown.valueForMoney \in 0..100
        /\ ret.value.breakdown.performancePerEfficiency \in 0..100

C2_Witness ==
    /\ currentSpec = EmptySpec
    /\ call.fn = "calculateCompositeScore"
    /\ call.weights = getDefaultSettings.weights
    /\ ~ret.threw
    /\ ret.value.composite = 6

\* C3: calculateEfficiencyPenalty returns a value >= 0 for every record,
\* whatever combination of bonus factors applies.
C3_PenaltyNonNegative ==
    Called("calculateEfficiencyPenalty") => Ge(ret.value, R(0))

\* the bonuses outweigh the penalties: small engine, light car, CVT, six gears or more
C3_Witness ==
    /\ Called("calculateEfficiencyPenalty")
    /\ Lt(displacementPenalty(currentSpec), R(0))
    /\ Lt(weightPenalty(currentSpec), R(0))
    /\ Lt(transmissionPenalty(currentSpec), R(0))
    /\ Gt(gearBonus(currentSpec), R(0))
    /\ Lt(totalPenalty(currentSpec), R(0))

\* C4: the transmission factor of calculateEfficiencyPenalty contributes
\* manual 0, cvt -1, amt 2, dct 3, automatic 5, hybrid -3, an unrecognized
\* type 2, and an absent type the same as manual (0).
C4_TransmissionContribution ==
    Called("calculateEfficiencyPenalty") =>
        transmissionPenalty(currentSpec) =
            (CASE transmissionKey(currentSpec) = "manual" -> R(0)
               [] transmissionKey(currentSpec) = "cvt" -> R(-1)
               [] transmissionKey(currentSpec) = "amt" -> R(2)
               [] transmissionKey(currentSpec) = "dct" -> R(3)
               [] transmissionKey(currentSpec) = "automatic" -> R(5)
               [] transmissionKey(currentSpec) = "hybrid" -> R(-3)
               [] OTHER -> R(2))

C6_FallbackAsStated ==
    (efficiencyBranch(currentSpec) = "estimate" /\ Called("calculateEfficiencyScore")) =>
        ret.value = MathMax(Q(15, 100),
                            Sub(Q(60, 100),
                                MathMin(Mul(calculateEfficiencyPenalty(currentSpec), Q(2, 100)),
                                        Q(45, 100))))

\* C6 amended: for such a record calculateRealWorldEfficiency returns a
\* positive penalty-based estimate, so calculateEfficiencyScore takes the
\* threshold branch: it returns the piecewise score of that estimate, less
\* min(penalty*0.012, 0.25), clamped to [0.05, 1].
C6_EstimateIsScoredOnThresholds ==
    (efficiencyBranch(currentSpec) = "estimate" /\ Called("calculateEfficiencyScore")) =>
        LET estimate == estimatedRealWorldEfficiency(currentSpec)
            adjustment == MathMin(Mul(calculateEfficiencyPenalty(currentSpec), Q(12, 1000)),
                                  Q(25, 100))
        IN  /\ Gt(estimate, R(0))
            /\ ret.value = clamp(Sub(piecewiseScore(estimate, currentSpec.fuelType), adjustment),
                                 Q(5, 100), R(1))

\* no mileage, and the score returned differs from the fallback formula
C6_Witness ==
    /\ efficiencyBranch(currentSpec) = "estimate"
    /\ Called("calculateEfficiencyScore")
    /\ currentSpec.mileage = Null
    /\ ret.value # fallbackScore(currentSpec)

\* C7 as stated: calculateSafetyScore is non-decreasing in ncapStars (absent
\* counting as the lowest), whatever the airbags, esc and isofix values are.
C7_MonotoneAsStated ==
    Called("calculateSafetyScore") =>
        \A n \in Nums(0..MaxStars) :
            (~Truthy(currentSpec.ncapStars) \/ Ge(n, currentSpec.ncapStars)) =>
                Ge(calculateSafetyScore([currentSpec EXCEPT !.ncapStars = n]), ret.value)

\* C7 amended: for two records that differ only in ncapStars, a <= b, the
\* record with b stars never scores lower provided a >= 1 (both are rated) or
\* b >= 3; a record with ncapStars absent or 0 is scored from its features (up
\* to 0.6) and can outscore a record with 1 or 2 stars.
C7_MonotoneOverRated ==
    Called("calculateSafetyScore") =>
        \A n \in Nums(1..MaxStars) :
            \/ (Truthy(currentSpec.ncapStars) /\ Lt(n, currentSpec.ncapStars))
            \/ (~Truthy(currentSpec.ncapStars) /\ Lt(n, R(3)))
            \/ Ge(calculateSafetyScore([currentSpec EXCEPT !.ncapStars = n]), ret.value)

\* an unrated record at the feature cap, which a 3-star record equals
C7_Witness ==
    /\ Called("calculateSafetyScore")
    /\ ~Truthy(currentSpec.ncapStars)
    /\ ret.value = Q(6, 10)
    /\ calculateSafetyScore([currentSpec EXCEPT !.ncapStars = R(3)]) = ret.value

\* C8: with ncapStars absent or 0 calculateSafetyScore is the feature sum
\* (airbags >= 6: 0.4, airbags in [2,6): 0.2, esc: 0.2, isofix: 0.2) capped at
\* 0.6, so it never exceeds 0.6.
C8_FeatureScoreCapped ==
    (Called("calculateSafetyScore") /\ ~Truthy(currentSpec.ncapStars)) =>
        LET a == currentSpec.airbags
            sum == Add(IF a # Null /\ Ge(a, R(6)) THEN Q(4, 10)
                       ELSE IF a # Null /\ Ge(a, R(2)) THEN Q(2, 10) ELSE R(0),
                       Add(IF currentSpec.esc THEN Q(2, 10) ELSE R(0),
                           IF currentSpec.isofix THEN Q(2, 10) ELSE R(0)))
        IN  /\ Le(ret.value, Q(6, 10))
            /\ ret.value = (IF Gt(sum, Q(6, 10)) THEN Q(6, 10) ELSE sum)

\* every feature present: the sum 0.8 is cut to 0.6
C8_Witness ==
    /\ Called("calculateSafetyScore")
    /\ currentSpec.ncapStars = R(0)
    /\ currentSpec.airbags = R(6)
    /\ currentSpec.esc
    /\ currentSpec.isofix
    /\ ret.value = Q(6, 10)

\* C9: for every normalized record each of the four sub-scores is in [0,1],
\* and the efficiency score is in [0.05, 1.0].
C9_SubScoresInRange ==
    /\ Called("calculateEfficiencyScore") => (Ge(ret.value, Q(5, 100)) /\ Le(ret.value, R(1)))
    /\ Called("calculateSafetyScore") => InUnit(ret.value)
    /\ Called("calculateValueScore") => InUnit(ret.value)
    /\ Called("calculatePerformancePerEfficiencyScore") => InUnit(ret.value)

\* the floor of the efficiency score is what the call returns
C9_Witness ==
    /\ Called("calculateEfficiencyScore")
    /\ ret.value = Q(5, 100)
    /\ Lt(Sub(piecewiseScore(calculateRealWorldEfficiency(currentSpec), currentSpec.fuelType),
              MathMin(Mul(calculateEfficiencyPenalty(currentSpec), Q(12, 1000)), Q(25, 100))),
          Q(5, 100))

\* what a call c returns for the record spec; of the result object of
\* calculateCompositeScore, the composite and the four sub-scores
ScoresOf(c, spec) ==
    CASE c.fn = "calculateEfficiencyPenalty" ->
            Outcome(penaltyThrows(spec), calculateEfficiencyPenalty(spec))
      [] c.fn = "calculateRealWorldEfficiency" ->
            Outcome(realWorldEfficiencyThrows(spec), calculateRealWorldEfficiency(spec))
      [] c.fn = "calculateEfficiencyScore" ->
            Outcome(efficiencyScoreThrows(spec), calculateEfficiencyScore(spec))
      [] c.fn = "calculateSafetyScore" -> Returned(calculateSafetyScore(spec))
      [] c.fn = "calculateCompositeScore" ->
            Outcome(compositeThrows(spec),
                    [x \in {"composite", "breakdown"} |->
                        calculateCompositeScore(spec, c.weights, getDefaultSettings.fuelPrices)[x]])

\* the same part of what the call returned
Scored(c, r) ==
    IF ~r.threw /\ c.fn = "calculateCompositeScore"
    THEN Returned([x \in {"composite", "breakdown"} |-> r.value[x]])
    ELSE r

ScoringCalls == {"calculateEfficiencyPenalty", "calculateRealWorldEfficiency",
                 "calculateEfficiencyScore", "calculateSafetyScore", "calculateCompositeScore"}

\* an enum value outside the closed set (a string, after the lowercasing the
\* engine applies to body and transmission type)
UnrecognizedFuel(spec) == TruthyStr(spec.fuelType) /\ spec.fuelType \notin DOMAIN baseEfficiency
UnrecognizedBody(spec) ==
    /\ TruthyStr(spec.bodyType) /\ IsString(spec.bodyType)
    /\ bodyTypeKey(spec) \notin DOMAIN bodyTypePenalties
UnrecognizedTransmission(spec) ==
    /\ TruthyStr(spec.transmissionType) /\ IsString(spec.transmissionType)
    /\ transmissionKey(spec) \notin DOMAIN transmissionPenalties

\* the record with each unrecognized enum value replaced by the default variant
WithDefaultVariants(spec) ==
    [spec EXCEPT !.fuelType = IF UnrecognizedFuel(spec) THEN "petrol" ELSE @,
                 !.bodyType = IF UnrecognizedBody(spec) THEN "sedan" ELSE @,
                 !.transmissionType = IF UnrecognizedTransmission(spec) THEN "manual" ELSE @]

C14_MileageAsStated ==
    (call.fn = "calculateRealWorldEfficiency" /\ currentSpec.mileage # Null) =>
        /\ ~ret.threw
        /\ ret.value = Mul(currentSpec.mileage,
                           IF currentSpec.fuelType = "hybrid" THEN Q(85, 100) ELSE Q(8, 10))

\* C14 amended: whenever mileage is present and not 0 the function returns
\* mileage times the fuel-type factor (0.85 for hybrid, 0.8 otherwise),
\* independent of every other field; a mileage of 0 is treated as absent.
C14_NonZeroMileageIsCorrected ==
    (call.fn = "calculateRealWorldEfficiency" /\ currentSpec.mileage # Null) =>
        IF currentSpec.mileage # R(0)
        THEN /\ ~ret.threw
             /\ ret.value = Mul(currentSpec.mileage,
                                IF currentSpec.fuelType = "hybrid" THEN Q(85, 100) ELSE Q(8, 10))
        ELSE ret = ScoresOf(call, [currentSpec EXCEPT !.mileage = Null])

\* petrol with mileage 20 gives 16
C14_Witness ==
    /\ Called("calculateRealWorldEfficiency")
    /\ currentSpec.fuelType = "petrol"
    /\ currentSpec.mileage = R(20)
    /\ ret.value = R(16)

\* the penalty-based estimate from the electric baseline 6.0
ElectricEstimate(spec) ==
    Mul(Mul(R(6), MathMax(Q(4, 10), Sub(R(1), Mul(calculateEfficiencyPenalty(spec), Q(15, 1000))))),
        Q(8, 10))

\* C15 as stated: for an electric record with no mileage and with both range
\* and batteryCapacity present calculateRealWorldEfficiency returns
\* (range*0.75)/batteryCapacity; if either is absent it returns the
\* penalty-based estimate from the electric baseline 6.0.
C15_ElectricAsStated ==
    (Called("calculateRealWorldEfficiency") /\ currentSpec.fuelType = "electric"
        /\ currentSpec.mileage = Null) =>
        IF currentSpec.range # Null /\ currentSpec.batteryCapacity # Null
        THEN currentSpec.batteryCapacity # R(0) =>
                ret.value = Div(Mul(currentSpec.range, Q(75, 100)), currentSpec.batteryCapacity)
        ELSE ret.value = ElectricEstimate(currentSpec)

\* C15 amended: for an electric record with no mileage (or mileage 0) and with
\* range and batteryCapacity both present and not 0 the function returns
\* (range*0.75)/batteryCapacity; if either is absent or 0 it returns the
\* penalty-based estimate from the electric baseline 6.0.
C15_ElectricRangeOverCapacity ==
    (Called("calculateRealWorldEfficiency") /\ currentSpec.fuelType = "electric"
        /\ ~Truthy(currentSpec.mileage)) =>
        IF Truthy(currentSpec.range) /\ Truthy(currentSpec.batteryCapacity)
        THEN ret.value = Div(Mul(currentSpec.range, Q(75, 100)), currentSpec.batteryCapacity)
        ELSE ret.value = ElectricEstimate(currentSpec)

\* range 300 and battery 40 give 5.625
C15_Witness ==
    /\ Called("calculateRealWorldEfficiency")
    /\ currentSpec.fuelType = "electric"
    /\ currentSpec.mileage = Null
    /\ currentSpec.range = R(300)
    /\ currentSpec.batteryCapacity = R(40)
    /\ ret.value = Q(5625, 1000)

\* featuresScore*0.6 + priceScore*0.4 with featuresScore the mean of the two
\* scores and priceScore = 1 - clamp((price-6)/44, 0, 1)
ValueFormula(price, efficiencyScore, safetyScore) ==
    LET ratio == Div(Sub(price, R(6)), R(44))
        clamped == IF Lt(ratio, R(0)) THEN R(0) ELSE IF Gt(ratio, R(1)) THEN R(1) ELSE ratio
    IN  Add(Mul(Div(Add(efficiencyScore, safetyScore), R(2)), Q(6, 10)),
            Mul(Sub(R(1), clamped), Q(4, 10)))

\* C16 as stated: calculateValueScore returns 0 when price is absent and
\* otherwise featuresScore*0.6 + priceScore*0.4.
C16_ValueAsStated ==
    Called("calculateValueScore") =>
        ret.value = (IF currentSpec.price = Null THEN R(0)
                     ELSE ValueFormula(currentSpec.price, call.efficiencyScore, call.safetyScore))

\* C16 amended: calculateValueScore returns 0 when price is absent or 0 and
\* otherwise featuresScore*0.6 + priceScore*0.4; with price 6 and both scores
\* 1 the result is 1.
C16_ValueOfPricedRecord ==
    Called("calculateValueScore") =>
        /\ ret.value = (IF currentSpec.price \in {Null, R(0)} THEN R(0)
                        ELSE ValueFormula(currentSpec.price, call.efficiencyScore,
                                          call.safetyScore))
        /\ (currentSpec.price = R(6) /\ call.efficiencyScore = R(1) /\ call.safetyScore = R(1))
                => ret.value = R(1)

\* price 6 with both scores 1 gives 1
C16_Witness ==
    /\ Called("calculateValueScore")
    /\ currentSpec.price = R(6)
    /\ call.efficiencyScore = R(1)
    /\ call.safetyScore = R(1)
    /\ ret.value = R(1)

\* 0.7*clamp((power/(kerbWeight/1000) - 50)/70, 0, 1) + 0.3*efficiencyScore
PerformanceFormula(power, kerbWeight, efficiencyScore) ==
    LET ratio == Div(Sub(Div(power, Div(kerbWeight, R(1000))), R(50)), R(70))
        clamped == IF Lt(ratio, R(0)) THEN R(0) ELSE IF Gt(ratio, R(1)) THEN R(1) ELSE ratio
    IN  Add(Mul(clamped, Q(7, 10)), Mul(efficiencyScore, Q(3, 10)))

\* C17 as stated: calculatePerformancePerEfficiencyScore returns the
\* efficiency score unchanged when power or kerbWeight is absent and otherwise
\* 0.7*clamp((power/(kerbWeight/1000) - 50)/70, 0, 1) + 0.3*efficiencyScore;
\* metrics.powerToWeight is null exactly when power or kerbWeight is absent.
C17_PerformanceAsStated ==
    /\ Called("calculatePerformancePerEfficiencyScore") =>
            IF currentSpec.power = Null \/ currentSpec.kerbWeight = Null
            THEN ret.value = call.efficiencyScore
            ELSE currentSpec.kerbWeight # R(0) =>
                    ret.value = PerformanceFormula(currentSpec.power, currentSpec.kerbWeight,
                                                   call.efficiencyScore)
    /\ Called("calculateCompositeScore") =>
            (ret.value.metrics.powerToWeight = Null
                <=> (currentSpec.power = Null \/ currentSpec.kerbWeight = Null))

\* C17 amended: the function returns the efficiency score unchanged when
\* power or kerbWeight is absent or 0 and otherwise
\* 0.7*clamp((power/(kerbWeight/1000) - 50)/70, 0, 1) + 0.3*efficiencyScore;
\* metrics.powerToWeight is null exactly when power or kerbWeight is absent or 0.
C17_PerformanceOfPoweredRecord ==
    /\ Called("calculatePerformancePerEfficiencyScore") =>
            IF ~Truthy(currentSpec.power) \/ ~Truthy(currentSpec.kerbWeight)
            THEN ret.value = call.efficiencyScore
            ELSE ret.value = PerformanceFormula(currentSpec.power, currentSpec.kerbWeight,
                                                call.efficiencyScore)
    /\ Called("calculateCompositeScore") =>
            (ret.value.metrics.powerToWeight = Null
                <=> (~Truthy(currentSpec.power) \/ ~Truthy(currentSpec.kerbWeight)))

\* 60 kW on 1000 kg with an efficiency score of 1: 0.7 * (10/70) + 0.3 = 0.4
C17_Witness ==
    /\ Called("calculatePerformancePerEfficiencyScore")
    /\ currentSpec.power = R(60)
    /\ currentSpec.kerbWeight = R(1000)
    /\ call.efficiencyScore = R(1)
    /\ ret.value = Q(4, 10)

\* the price configured for a fuel type: the petrol price for hybrid, none
\* for an absent or unrecognized type
ConfiguredPrice(fuelType, fuelPrices) ==
    CASE fuelType \in {"petrol", "hybrid"} -> fuelPrices.petrol
      [] fuelType = "diesel" -> fuelPrices.diesel
      [] fuelType = "cng" -> fuelPrices.cng
      [] fuelType = "electric" -> fuelPrices.electricity
      [] OTHER -> Null

\* C18: calculateCostPerKm returns fuelPrice/realWorldEfficiency with the price
\* configured for the record's fuel type and null when the fuel type is absent
\* or unrecognized or the efficiency is undeterminable; a null cost never
\* prevents the composite from being produced.
C18_CostPerKm ==
    /\ Called("calculateCostPerKm") =>
            LET price == ConfiguredPrice(currentSpec.fuelType, getDefaultSettings.fuelPrices)
                efficiency == calculateRealWorldEfficiency(currentSpec)
            IN  ret.value = (IF price = Null \/ ~Truthy(efficiency) THEN Null
                             ELSE Div(price, efficiency))
    /\ (Called("calculateCompositeScore") /\ ret.value.metrics.costPerKm = Null) =>
            /\ ret.value.composite \in 0..100
            /\ currentSpec.fuelType \notin DOMAIN baseEfficiency
    /\ (call.fn = "calculateCompositeScore" /\ currentSpec.fuelType \notin DOMAIN baseEfficiency
            /\ IsString(currentSpec.bodyType) /\ IsString(currentSpec.transmissionType)) =>
            /\ ~ret.threw
            /\ ret.value.metrics.costPerKm = Null

\* a hybrid is costed at the petrol price: 110 / (20 * 0.85)
C18_Witness ==
    /\ Called("calculateCostPerKm")
    /\ currentSpec.fuelType = "hybrid"
    /\ currentSpec.mileage = R(20)
    /\ ret.value = Q(110, 17)

\* the displacement and kerb-weight contributions as the claim gives them
DisplacementContribution(cc) ==
    IF cc = Null THEN R(0)
    ELSE IF Gt(cc, R(1500)) THEN MathMin(Mul(Div(Sub(cc, R(1500)), R(100)), Q(25, 10)), R(25))
    ELSE IF Gt(cc, R(1200)) THEN Mul(Div(Sub(cc, R(1200)), R(100)), Q(15, 10))
    ELSE IF Lt(cc, R(1000)) THEN Neg(MathMin(Mul(Div(Sub(R(1000), cc), R(100)), R(2)), R(10)))
    ELSE R(0)

WeightContribution(kg) ==
    IF kg = Null THEN R(0)
    ELSE IF Gt(kg, R(1200)) THEN MathMin(Mul(Div(Sub(kg, R(1200)), R(100)), R(4)), R(30))
    ELSE IF Gt(kg, R(1000)) THEN Mul(Div(Sub(kg, R(1000)), R(100)), R(2))
    ELSE IF Lt(kg, R(900)) THEN Neg(MathMin(Mul(Div(Sub(R(900), kg), R(100)), R(3)), R(12)))
    ELSE R(0)

\* C19 as stated: the displacement and kerb-weight factors contribute exactly
\* the banded amounts of the claim, and an absent field contributes 0.
C19_BandsAsStated ==
    Called("calculateEfficiencyPenalty") =>
        /\ displacementPenalty(currentSpec) = DisplacementContribution(currentSpec.displacement)
        /\ weightPenalty(currentSpec) = WeightContribution(currentSpec.kerbWeight)

\* C19 amended: the factors contribute exactly the banded amounts for a
\* displacement or kerb weight other than 0; an absent field or a field that
\* is 0 contributes 0.
C19_BandsOfNonZeroFields ==
    Called("calculateEfficiencyPenalty") =>
        /\ displacementPenalty(currentSpec) =
                (IF currentSpec.displacement = R(0) THEN R(0)
                 ELSE DisplacementContribution(currentSpec.displacement))
        /\ weightPenalty(currentSpec) =
                (IF currentSpec.kerbWeight = R(0) THEN R(0)
                 ELSE WeightContribution(currentSpec.kerbWeight))

\* both ceilings at once: 2600 cc gives 25 and 2000 kg gives 30
C19_Witness ==
    /\ Called("calculateEfficiencyPenalty")
    /\ currentSpec.displacement = R(2600)
    /\ currentSpec.kerbWeight = R(2000)
    /\ displacementPenalty(currentSpec) = R(25)
    /\ weightPenalty(currentSpec) = R(30)
    /\ Ge(ret.value, R(55))

----------------------------------------------------------------------------
(* Properties of the normalizer                                            *)

\* C10: after validateSpec every numeric field of the record is either a
\* finite non-negative number or absent (null / undefined): never negative,
\* never NaN, never a non-numeric string.
C10_NumericFieldsNormalized ==
    Called("validateSpec") =>
        \A field \in AllNumericFields :
            \/ IsNullish(ret.value[field])
            \/ (ret.value[field].t = "number" /\ ret.value[field].v[1] >= 0)

\* C11 as stated: validateSpec maps a boolean field (esc, isofix) to true when
\* its value is truthy and to false when its value is false or explicitly null.
C11_BooleansAsStated ==
    Called("validateSpec") =>
        \A field \in booleanFields :
            /\ JsTruthy(rawSpec[field]) => ret.value[field] = Bool(TRUE)
            /\ rawSpec[field] \in {Bool(FALSE), JsNull} => ret.value[field] = Bool(FALSE)

\* C11 amended: validateSpec maps a boolean field whose value is neither null
\* nor undefined to true when the value is truthy and to false when it is
\* falsy (false, 0, the empty string); a null or undefined field is left as
\* it is, not mapped to false.
C11_BooleansCoercedUnlessNullish ==
    Called("validateSpec") =>
        \A field \in booleanFields :
            IF IsNullish(rawSpec[field]) THEN ret.value[field] = rawSpec[field]
            ELSE ret.value[field] = Bool(JsTruthy(rawSpec[field]))

\* a null esc stays null while a truthy string isofix becomes true
C11_Witness ==
    /\ Called("validateSpec")
    /\ rawSpec.esc = JsNull
    /\ ret.value.esc = JsNull
    /\ rawSpec.isofix = Word("yes")
    /\ ret.value.isofix = Bool(TRUE)

\* C12: validateSpec leaves every field other than the coerced numeric fields,
\* esc, isofix and fuelType unchanged in its result, signals no error for
\* them, and does not modify the object it was given.
C12_OtherFieldsPassThrough ==
    /\ [](Called("validateSpec") =>
            /\ DOMAIN ret.value = DOMAIN rawSpec
            /\ \A field \in RawFields \ (numericFields \cup booleanFields \cup {"fuelType"}) :
                    ret.value[field] = rawSpec[field])
    /\ []((call.fn = "validateSpec" /\ ret.threw) =>
            (JsTruthy(rawSpec.fuelType) /\ rawSpec.fuelType.t # "word"))
    /\ [][rawSpec' = rawSpec]_vars

\* the name passes through while the fuel type beside it is lowercased
C12_Witness ==
    /\ Called("validateSpec")
    /\ rawSpec.carName = Word("Swift")
    /\ ret.value.carName = Word("Swift")
    /\ rawSpec.fuelType = Word("Petrol")
    /\ ret.value.fuelType = Word("petrol")

----------------------------------------------------------------------------
(* Properties of the efficiency score over the measured mileage            *)

\* C25: for a fixed fuel type and fixed design parameters, the efficiency
\* score of a record with a measured mileage is never below the score of the
\* same record with a lower measured mileage: the piecewise score does not
\* step down at the poor, average, good or excellent threshold.
C25_MonotoneInMileage ==
    Called("calculateEfficiencyScore") =>
        \A m \in Mileages :
            Le(m, currentSpec.mileage) =>
                Le(calculateEfficiencyScore([currentSpec EXCEPT !.mileage = m]), ret.value)

\* a petrol record measured at 17.5 km/l, which is the average threshold of 14
\* after the real-world factor: 0.35 before the penalty adjustment, and scored
\* above the record at 17.25 km/l
C25_Witness ==
    /\ Called("calculateEfficiencyScore")
    /\ currentSpec.fuelType = "petrol"
    /\ currentSpec.bodyType = NoStr
    /\ currentSpec.mileage = Q(35, 2)
    /\ calculateRealWorldEfficiency(currentSpec) = thresholds("petrol")[3]
    /\ piecewiseScore(calculateRealWorldEfficiency(currentSpec), "petrol") = Q(35, 100)
    /\ Lt(calculateEfficiencyScore([currentSpec EXCEPT !.mileage = Q(69, 4)]), ret.value)

----------------------------------------------------------------------------
(* Properties of the enrichment                                            *)

\* the fields of a record that the scoring engine reads
ScoringFields == DOMAIN EmptySpec

\* a field that holds a value: not null or undefined, and for esc and isofix
\* (kept as their truthiness) not false
Present(spec, f) ==
    IF f \in {"fuelType", "transmissionType", "bodyType"} THEN spec[f] # NoStr
    ELSE IF f \in booleanFields THEN spec[f]
    ELSE spec[f] # Null

\* C30 as stated: in the record enhanceSpecWithGemini returns, every scoring
\* field that is present in localSpec has the value it has in localSpec, every
\* field that localSpec does not have is an underscore-prefixed metadata
\* field, and localSpec itself is left as it was.
C30_OnlyFillsWhatIsLacking ==
    /\ [](Called("enhanceSpecWithGemini") =>
            /\ \A f \in ScoringFields :
                    Present(currentSpec, f) => ret.value[f] = currentSpec[f]
            /\ (DOMAIN ret.value) \ ScoringFields
                   \subseteq {"_geminiPowerToWeight", "_segment", "_missingFields"})
    /\ [][currentSpec' = currentSpec]_vars

----------------------------------------------------------------------------
(* Properties of debounce                                                  *)

\* func runs in this step
FuncRuns == Len(burst'.ran) = Len(burst.ran) + 1

\* C24: the function debounce returns runs func exactly once for every burst
\* of calls: func has run once for every burst but the one whose timer is
\* still running, every run comes exactly Wait after the last call of its
\* burst and has the arguments of that call, no run comes while the burst has
\* been quiet for less than Wait, and the timer of a burst that gets no
\* further call does run.
C24_RunsOncePerBurst ==
    /\ [](/\ Len(burst.ran) = burst.bursts - (IF timeout # Null THEN 1 ELSE 0)
          /\ timeout # Null => burst.quiet = Wait - timeout.due)
    /\ [][FuncRuns => /\ burst.quiet = Wait
                       /\ burst'.ran[Len(burst'.ran)] = burst.args]_vars
    /\ \A c \in 1..MaxCalls :
            (burst.calls = c /\ timeout # Null)
                ~> (burst.calls # c \/ (timeout = Null /\ Len(burst.ran) = burst.bursts))

\* two bursts: one of two calls, whose second call restarted the timer and
\* gave func its arguments, and one of a single call; func has run twice
C24_Witness ==
    /\ burst.calls = 3
    /\ burst.bursts = 2
    /\ burst.ran = <<"b", "c">>
    /\ timeout = Null

----------------------------------------------------------------------------
(* Properties of the popup                                                 *)

\* four non-negative integer weights that sum to 100, and four prices above 0
WeightContract(s) ==
    /\ \A k \in DOMAIN s.weights : s.weights[k][2] = 1 /\ s.weights[k][1] >= 0
    /\ DOMAIN s.weights = {"efficiency", "safety", "valueForMoney", "performancePerEfficiency"}
    /\ totalWeight(s.weights) = R(100)
    /\ DOMAIN s.fuelPrices = {"petrol", "diesel", "cng", "electricity"}
    /\ \A k \in DOMAIN s.fuelPrices : Gt(s.fuelPrices[k], R(0))

\* C22 as stated: whatever the popup has written to storage has four weights
\* that are non-negative integers summing to 100 and four fuel prices above
\* 0, and a saveSettings that rejects the form leaves storage and
\* currentSettings as they were.
C22_PersistedSettingsKeepContract ==
    /\ [](stored # Null => WeightContract(stored))
    /\ [][popup'.status \in {"Weights must total exactly 100%",
                              "Please enter valid fuel prices", "Failed to save settings"}
            => (stored' = stored /\ popup'.currentSettings = popup.currentSettings)]_vars

----------------------------------------------------------------------------
(* Properties of the controller of the content script.                     *)

\* C29: the page never holds more than one element with the overlay id: a
\* score or error overlay that is displayed replaces the one before it
C29_AtMostOneOverlay == Len(overlays) <= 1

\* an error overlay stands alone in the page where a score overlay stood before
C29_Witness ==
    /\ Len(overlays) = 1
    /\ overlays[1].kind = "error"
    /\ currentScore # Null

\* C26: the pair reported for 'getCurrentSpec' is consistent: no score without
\* a record, and with a record the score is calculateCompositeScore of that
\* record under the current settings
C26_ReportedPairConsistent ==
    IF currentSpec = Null
    THEN currentScore = Null
    ELSE currentScore = scoreWithSettings(currentSpec, settings)

\* a record that was analysed, enriched with a segment and scored again under
\* settings saved by the popup
C26_Witness ==
    /\ currentSpec # Null
    /\ currentScore # Null
    /\ "_segment" \in DOMAIN currentSpec
    /\ settings.weights.efficiency = R(25)

\* the settings have the four weights and the four fuel prices
FullSettings(s) ==
    /\ DOMAIN s = {"weights", "fuelPrices"}
    /\ DOMAIN s.weights = DOMAIN getDefaultSettings.weights
    /\ DOMAIN s.fuelPrices = DOMAIN getDefaultSettings.fuelPrices

C21_OnePassInFlight == Len(pending) <= 1

\* C27: every enrichment request in flight was made for the record that is
\* current, so its response is applied to the record it was requested for
C27_ResponseMeetsItsRecord == \A i \in 1..Len(pending) : pending[i].spec = currentSpec

\* a score overlay shows the 'Loading AI insights...' placeholder
LoadingShown ==
    \E i \in 1..Len(overlays) : overlays[i].kind = "score" /\ overlays[i].insights = "loading"

\* C28: when every Gemini request completes, a displayed loading placeholder
\* does not stay forever
C28_PlaceholderIsReplaced == LoadingShown ~> ~LoadingShown

====
